---------------------------- MODULE Spec2Model ----------------------------
(***************************************************************************)
(* The aesdchar driver: a ring of the most recent write commands            *)
(* (aesd-circular-buffer.c) behind the character device aesdchar.c          *)
(* (read, write, llseek, seek-to-command ioctl), with the kernel heap       *)
(* (kmalloc/kfree) and the device mutex.                                    *)
(*                                                                         *)
(* Spec      : every handler runs as one step (each holds dev->lock for its *)
(*             whole body), one open file, plain and partial writes.        *)
(* SpecWrite : aesd_write alone, one step per call, writes of every shape   *)
(*             and every error path.                                        *)
(* SpecConc  : two threads; a handler is a sequence of steps between        *)
(*             mutex_lock_interruptible and mutex_unlock.                   *)
(* SpecSmall : the driver built with two slots, three-byte records.         *)
(* SpecServer: aesdsocket.c, two handle_client threads over the device.     *)
(* SpecSession: one handle_client thread, receive chunks of every kind.     *)
(* SpecLifetime: writes to the loaded driver, then aesd_cleanup_module.     *)
(* SpecShutdown: main's accept loop, the session threads and the signal.   *)
(* SpecOverflow: handle_client of the LCD build with its bounded buffer.   *)
(* SpecRedirect: do_exec_redirect of systemcalls.c, caller and child.      *)
(* SpecLocks : direct callers of the driver, then one handle_client        *)
(*             thread: file_mutex and dev->lock on every path.             *)
(***************************************************************************)
EXTENDS Integers, Sequences, FiniteSets, TLC

VARIABLES
    max_write_operations,  \* the capacity the driver was built with
    aesd_device,   \* struct aesd_dev: circular_buffer, temp_buffer, temp_buffer_size, lock
    heap,          \* kmalloc'ed storage: pointer -> [live, data]
    bad_kfree,     \* a kfree was given a pointer that is not live (double free)
    f_pos,         \* filp->f_pos of each open file
    retval,        \* return value of the last handler that returned
    last_op,       \* which handler returned last
    last_by,       \* the open file (thread) whose handler returned last
    ubuf,          \* bytes the last aesd_read copied to the user buffer
    pc,            \* SpecConc: position of each thread inside its handler
    loc,           \* SpecConc: locals of the handler each thread is running
    nspecial,      \* number of successful writes that were not a plain one-record write
    committed,     \* history: the records committed most recently, oldest first
    ncommits,      \* history: number of records committed so far
    pending,       \* history: bytes accepted since the last commit
    first_record,  \* history: bytes of the first record ever committed
    committers,    \* history: the threads that have committed a record
    writers,       \* history: the open files whose bytes are pending, and those whose
                   \* bytes make up the record committed last
    file_mutex,    \* aesdsocket: the thread holding file_mutex, or NULL
    session,       \* aesdsocket: handle_client's position and locals, per connection
    client,        \* aesdsocket: what each client has sent and been sent
    nrecv,         \* aesdsocket: receipts so far
    trace,         \* aesdsocket: the receipts and dispatches of the connections followed
    IntTermSignaled,   \* aesdsocket: the flag signal_handler sets
    thread_list_head,  \* aesdsocket: the list of thread_data records, head first
    thread_data,       \* aesdsocket: each session thread and its struct thread_data
    main_thread,       \* aesdsocket: position and locals of main
    lcd_session,       \* aesdsocket (LCD build): handle_client's position and receive buffer
    lcd_log,           \* aesdsocket (LCD build): bytes received, payloads written, bytes dropped
    redirect           \* systemcalls: do_exec_redirect's caller, its descriptors and the child

vars == <<max_write_operations, aesd_device, heap, bad_kfree, f_pos, retval, last_op, last_by, ubuf, pc, loc,
          nspecial, committed, ncommits, pending, first_record, committers, writers,
          file_mutex, session, client, nrecv, trace,
          IntTermSignaled, thread_list_head, thread_data, main_thread,
          lcd_session, lcd_log, redirect>>

-----------------------------------------------------------------------------
(* Program constants *)

\* the reference capacity of the ring, and the capacity of the two-slot scenario
ReferenceCapacity == 10
ScenarioCapacity == 2

\* #define AESDCHAR_MAX_WRITE_OPERATIONS_SUPPORTED: fixed when the driver is built
AESDCHAR_MAX_WRITE_OPERATIONS_SUPPORTED == max_write_operations

NULL == 0
ERESTARTSYS == 512
EFAULT == 14
ENOMEM == 12
EINVAL == 22

SEEK_SET == 0
SEEK_CUR == 1
SEEK_END == 2

(* Bounds of the model *)

MaxCommits == 12     \* records committed per behaviour
MaxSpecial == 1      \* SpecConc: writes that are not a plain "<tag>\n" record
MaxIrregular == 1    \* SpecWrite: writes that are not a plain "<tag>\n" record
MaxCount == 2        \* largest count given to aesd_read

(* Bytes: the terminator, the data bytes (tags >= 1), uninitialised storage *)
NL == 0
Poison == 0 - 1

Files == {1, 2}
SeqFiles == {1}
Slots == 0..(AESDCHAR_MAX_WRITE_OPERATIONS_SUPPORTED - 1)
Ptrs == 1..(AESDCHAR_MAX_WRITE_OPERATIONS_SUPPORTED + 3)

-----------------------------------------------------------------------------
(* The kernel heap *)

FreeCell == [live |-> FALSE, data |-> <<>>]

\* kmalloc(size, GFP_KERNEL): a pointer to fresh uninitialised storage, or NULL
kmalloc(h, size) ==
    LET free == {p \in Ptrs : ~h[p].live}
    IN  IF free = {} THEN [ptr |-> NULL, heap |-> h]
        ELSE LET p == CHOOSE q \in free : \A r \in free : q <= r
             IN  [ptr |-> p,
                  heap |-> [h EXCEPT ![p] = [live |-> TRUE,
                                             data |-> [i \in 1..size |-> Poison]]]]

\* kfree(p): NULL is ignored; a pointer that is not live is a double free
kfree(s, p) ==
    IF p = NULL THEN s
    ELSE IF s.heap[p].live THEN [s EXCEPT !.heap[p] = FreeCell]
    ELSE [s EXCEPT !.bad = TRUE]

\* the n bytes stored at p + off (reading freed storage yields garbage)
Peek(h, p, off, n) ==
    [i \in 1..n |-> IF p # NULL /\ h[p].live /\ off + i <= Len(h[p].data)
                    THEN h[p].data[off + i] ELSE Poison]

-----------------------------------------------------------------------------
(* aesd-circular-buffer.c *)

EmptyEntry == [buffptr |-> NULL, size |-> 0]

aesd_circular_buffer_init ==
    [entry |-> [i \in Slots |-> EmptyEntry], in_offs |-> 0, out_offs |-> 0, full |-> FALSE]

\* faulty variant: a full ring keeps its oldest entry, the new one goes to the next slot
add_entry_store_keep_oldest(buffer, add_entry) ==
    IF buffer.full
    THEN [buffer EXCEPT !.entry[(buffer.in_offs + 1) % AESDCHAR_MAX_WRITE_OPERATIONS_SUPPORTED] = add_entry]
    ELSE [buffer EXCEPT !.entry[buffer.in_offs] = add_entry]

\* buffer->entry[buffer->in_offs] = *add_entry
add_entry_store(buffer, add_entry) ==
    [buffer EXCEPT !.entry[buffer.in_offs] = add_entry]

\* faulty variant: out_offs is not advanced when a full ring is overwritten
add_entry_advance_out_stuck(buffer) == buffer

\* if (buffer->full) out_offs = (out_offs + 1) % MAX
add_entry_advance_out(buffer) ==
    IF buffer.full
    THEN [buffer EXCEPT !.out_offs = (buffer.out_offs + 1) % AESDCHAR_MAX_WRITE_OPERATIONS_SUPPORTED]
    ELSE buffer

\* faulty variant: in_offs advances but the full flag is never raised
add_entry_advance_in_noflag(buffer) ==
    [buffer EXCEPT !.in_offs = (buffer.in_offs + 1) % AESDCHAR_MAX_WRITE_OPERATIONS_SUPPORTED]

\* in_offs = (in_offs + 1) % MAX; if (in_offs == out_offs) full = true
add_entry_advance_in(buffer) ==
    LET b == [buffer EXCEPT !.in_offs = (buffer.in_offs + 1) % AESDCHAR_MAX_WRITE_OPERATIONS_SUPPORTED]
    IN  IF b.in_offs = b.out_offs THEN [b EXCEPT !.full = TRUE] ELSE b

aesd_circular_buffer_add_entry(buffer, add_entry) ==
    add_entry_advance_in(add_entry_advance_out(add_entry_store(buffer, add_entry)))

NotFound == [entry |-> 0 - 1, entry_offset_byte_rtn |-> 0 - 1]

RECURSIVE find_walk_inclusive(_, _, _, _)
\* faulty variant: the range test takes the end of an entry as inside it
find_walk_inclusive(buffer, char_offset, currentIndex, cumulativeOffset) ==
    LET currentEntry == buffer.entry[currentIndex]
        nextIndex == (currentIndex + 1) % AESDCHAR_MAX_WRITE_OPERATIONS_SUPPORTED
    IN  IF char_offset <= cumulativeOffset + currentEntry.size
        THEN [entry |-> currentIndex, entry_offset_byte_rtn |-> char_offset - cumulativeOffset]
        ELSE IF nextIndex = buffer.in_offs THEN NotFound
        ELSE find_walk_inclusive(buffer, char_offset, nextIndex,
                                 cumulativeOffset + currentEntry.size)

RECURSIVE find_walk(_, _, _, _)
find_walk(buffer, char_offset, currentIndex, cumulativeOffset) ==
    LET currentEntry == buffer.entry[currentIndex]
        nextIndex == (currentIndex + 1) % AESDCHAR_MAX_WRITE_OPERATIONS_SUPPORTED
    IN  IF char_offset < cumulativeOffset + currentEntry.size
        THEN [entry |-> currentIndex, entry_offset_byte_rtn |-> char_offset - cumulativeOffset]
        ELSE IF nextIndex = buffer.in_offs THEN NotFound
        ELSE find_walk(buffer, char_offset, nextIndex, cumulativeOffset + currentEntry.size)

\* returns the slot (entry = -1 for NULL) and *entry_offset_byte_rtn (-1: not set)
aesd_circular_buffer_find_entry_offset_for_fpos(buffer, char_offset) ==
    IF ~buffer.full /\ buffer.in_offs = buffer.out_offs THEN NotFound
    ELSE find_walk(buffer, char_offset, buffer.out_offs, 0)

-----------------------------------------------------------------------------
(* aesdchar.c *)

\* state of the device after aesd_init_module
aesd_init_module ==
    [circular_buffer |-> aesd_circular_buffer_init,
     temp_buffer |-> NULL, temp_buffer_size |-> 0, lock |-> NULL]

RECURSIVE total_walk(_, _, _)
total_walk(buffer, index, total_size) ==
    LET total == total_size + buffer.entry[index].size
        nextIndex == (index + 1) % AESDCHAR_MAX_WRITE_OPERATIONS_SUPPORTED
    IN  IF nextIndex = buffer.in_offs THEN total
        ELSE total_walk(buffer, nextIndex, total)

\* faulty variant: the bytes of the pending buffer are counted too
aesd_get_total_size_with_pending(dev) ==
    LET buffer == dev.circular_buffer
    IN  dev.temp_buffer_size +
        (IF ~buffer.full /\ buffer.in_offs = buffer.out_offs THEN 0
         ELSE total_walk(buffer, buffer.out_offs, 0))

aesd_get_total_size(dev) ==
    LET buffer == dev.circular_buffer
    IN  IF ~buffer.full /\ buffer.in_offs = buffer.out_offs THEN 0
        ELSE total_walk(buffer, buffer.out_offs, 0)

\* found_newline of aesd_write: the scan of the user buffer for '\n'
found_newline(buf) == \E i \in 1..Len(buf) : buf[i] = NL

\* aesd_write, memcpy of the pending bytes and copy_from_user of the new ones into
\* new_buffer (already allocated in s.heap); s = [dev, heap, bad, old_entry_ptr]
write_copy(s, new_buffer, buf) ==
    LET dev == s.dev
        old == Peek(s.heap, dev.temp_buffer, 0, dev.temp_buffer_size)
    IN  [s EXCEPT !.heap[new_buffer].data =
                      (IF dev.temp_buffer_size > 0 THEN old ELSE <<>>) \o buf]

\* faulty variant: temp_buffer_size is set to count instead of grown by it
write_swap_size_reset(s, new_buffer, count) ==
    LET freed == IF s.dev.temp_buffer # NULL THEN kfree(s, s.dev.temp_buffer) ELSE s
    IN  [freed EXCEPT !.dev.temp_buffer = new_buffer,
                      !.dev.temp_buffer_size = count]

\* aesd_write: kfree(temp_buffer); temp_buffer = new_buffer; temp_buffer_size += count
write_swap(s, new_buffer, count) ==
    LET freed == IF s.dev.temp_buffer # NULL THEN kfree(s, s.dev.temp_buffer) ELSE s
    IN  [freed EXCEPT !.dev.temp_buffer = new_buffer,
                      !.dev.temp_buffer_size = s.dev.temp_buffer_size + count]

write_accumulate(s, new_buffer, buf) ==
    write_swap(write_copy(s, new_buffer, buf), new_buffer, Len(buf))

\* faulty variant: the storage to free is looked up after the insert, at the new out_offs
write_free_oldest_after_insert(s) ==
    LET cb == s.dev.circular_buffer
    IN  IF s.old_entry_ptr # NULL THEN kfree(s, cb.entry[cb.out_offs].buffptr) ELSE s

\* aesd_write, if (found_newline): the pointer of the entry about to be overwritten
write_old_entry_ptr(s) ==
    LET cb == s.dev.circular_buffer
    IN  [s EXCEPT !.old_entry_ptr = IF cb.full THEN cb.entry[cb.in_offs].buffptr ELSE NULL]

\* aesd_write: new_entry = {temp_buffer, temp_buffer_size}
write_new_entry(s) == [buffptr |-> s.dev.temp_buffer, size |-> s.dev.temp_buffer_size]

\* aesd_write, if (found_newline), to the return of aesd_circular_buffer_add_entry
write_insert(s) ==
    LET s1 == write_old_entry_ptr(s)
    IN  [s1 EXCEPT !.dev.circular_buffer =
                       aesd_circular_buffer_add_entry(s1.dev.circular_buffer, write_new_entry(s1))]

\* aesd_write: if (old_entry_ptr) kfree(old_entry_ptr)
write_free_old(s) == IF s.old_entry_ptr # NULL THEN kfree(s, s.old_entry_ptr) ELSE s

\* faulty variant: the pending buffer is handed to the ring but still named by
\* temp_buffer afterwards
write_reset_temp_keep(s) == s

\* aesd_write: temp_buffer = NULL; temp_buffer_size = 0
write_reset_temp(s) ==
    [s EXCEPT !.dev.temp_buffer = NULL, !.dev.temp_buffer_size = 0]

\* faulty variant: new_buffer is not released when copy_from_user fails
write_copy_fault_leak(s, new_buffer) == s

\* aesd_write, copy_from_user fails: kfree(new_buffer)
write_copy_fault(s, new_buffer) == kfree(s, new_buffer)

\* aesd_write with the lock held, from the scan to the return value:
\* [dev, heap, bad, old_entry_ptr, ret, ok]
write_body(dev, h, bad, buf, fault) ==
    LET s0 == [dev |-> dev, heap |-> h, bad |-> bad, old_entry_ptr |-> NULL]
        a == kmalloc(h, dev.temp_buffer_size + Len(buf))
        s1 == write_accumulate([s0 EXCEPT !.heap = a.heap], a.ptr, buf)
        s2 == IF found_newline(buf)
              THEN write_reset_temp(write_free_old(write_insert(s1)))
              ELSE s1
        fail(e) == [dev |-> dev, heap |-> h, bad |-> bad, ret |-> 0 - e, ok |-> FALSE]
    IN  IF fault = "fault_scan" THEN fail(EFAULT)
        ELSE IF fault = "enomem" \/ a.ptr = NULL THEN fail(ENOMEM)
        ELSE IF fault = "fault_copy"
             THEN LET k == write_copy_fault([s0 EXCEPT !.heap = a.heap], a.ptr)
                  IN  [dev |-> k.dev, heap |-> k.heap, bad |-> k.bad,
                       ret |-> 0 - EFAULT, ok |-> FALSE]
        ELSE [dev |-> s2.dev, heap |-> s2.heap, bad |-> s2.bad,
              ret |-> Len(buf), ok |-> TRUE]

\* faulty variant: the copy is not limited to what is left of the entry
read_body_unclamped(dev, h, pos, count, fault) ==
    LET r == aesd_circular_buffer_find_entry_offset_for_fpos(dev.circular_buffer, pos)
        entry == dev.circular_buffer.entry[r.entry]
    IN  IF r.entry = NotFound.entry THEN [ret |-> 0, f_pos |-> pos, ubuf |-> <<>>]
        ELSE IF fault = "fault_copy" THEN [ret |-> 0 - EFAULT, f_pos |-> pos, ubuf |-> <<>>]
        ELSE [ret |-> count, f_pos |-> pos + count,
              ubuf |-> Peek(h, entry.buffptr, r.entry_offset_byte_rtn, count)]

\* faulty variant: a position that does not resolve is reported as an error
read_body_eof_is_error(dev, h, pos, count, fault) ==
    LET r == aesd_circular_buffer_find_entry_offset_for_fpos(dev.circular_buffer, pos)
        entry == dev.circular_buffer.entry[r.entry]
        avail == entry.size - r.entry_offset_byte_rtn
        bytes_to_copy == IF avail > count THEN count ELSE avail
    IN  IF r.entry = NotFound.entry THEN [ret |-> 0 - EFAULT, f_pos |-> pos, ubuf |-> <<>>]
        ELSE IF fault = "fault_copy" THEN [ret |-> 0 - EFAULT, f_pos |-> pos, ubuf |-> <<>>]
        ELSE [ret |-> bytes_to_copy, f_pos |-> pos + bytes_to_copy,
              ubuf |-> Peek(h, entry.buffptr, r.entry_offset_byte_rtn, bytes_to_copy)]

\* aesd_read with the lock held: [ret, f_pos, ubuf]
read_body(dev, h, pos, count, fault) ==
    LET r == aesd_circular_buffer_find_entry_offset_for_fpos(dev.circular_buffer, pos)
        entry == dev.circular_buffer.entry[r.entry]
        avail == entry.size - r.entry_offset_byte_rtn
        bytes_to_copy == IF avail > count THEN count ELSE avail
    IN  IF r.entry = NotFound.entry THEN [ret |-> 0, f_pos |-> pos, ubuf |-> <<>>]
        ELSE IF fault = "fault_copy" THEN [ret |-> 0 - EFAULT, f_pos |-> pos, ubuf |-> <<>>]
        ELSE [ret |-> bytes_to_copy, f_pos |-> pos + bytes_to_copy,
              ubuf |-> Peek(h, entry.buffptr, r.entry_offset_byte_rtn, bytes_to_copy)]

\* faulty variant: a read that returns bytes drops the oldest entry from the ring
aesd_read_dev_consume(dev, ret) ==
    IF ret > 0
    THEN [dev EXCEPT !.circular_buffer.out_offs =
                         (@ + 1) % AESDCHAR_MAX_WRITE_OPERATIONS_SUPPORTED,
                     !.circular_buffer.full = FALSE]
    ELSE dev

\* aesd_read: the device after the call; dev is read (the entry found, its size and
\* its bytes) and no field of it is assigned
aesd_read_dev(dev, ret) == dev

\* fixed_size_llseek(filp, offset, whence, size): [ret, f_pos]
fixed_size_llseek(pos, offset, whence, size) ==
    LET target == IF whence = SEEK_SET THEN offset
                  ELSE IF whence = SEEK_CUR THEN pos + offset
                  ELSE size + offset
    IN  IF whence \notin {SEEK_SET, SEEK_CUR, SEEK_END} THEN [ret |-> 0 - EINVAL, f_pos |-> pos]
        ELSE IF whence = SEEK_CUR /\ offset = 0 THEN [ret |-> pos, f_pos |-> pos]
        ELSE IF target < 0 \/ target > size THEN [ret |-> 0 - EINVAL, f_pos |-> pos]
        ELSE [ret |-> target, f_pos |-> target]

\* aesd_llseek with the lock held
llseek_body(dev, pos, offset, whence) ==
    fixed_size_llseek(pos, offset, whence, aesd_get_total_size(dev))

RECURSIVE adjust_walk_through(_, _, _, _)
\* faulty variant: the walk also adds the size of the target entry
adjust_walk_through(buffer, index, current_index, cumulative_offset) ==
    IF index = current_index THEN cumulative_offset + buffer.entry[index].size
    ELSE adjust_walk_through(buffer, (index + 1) % AESDCHAR_MAX_WRITE_OPERATIONS_SUPPORTED,
                             current_index, cumulative_offset + buffer.entry[index].size)

RECURSIVE adjust_walk(_, _, _, _)
adjust_walk(buffer, index, current_index, cumulative_offset) ==
    IF index = current_index THEN cumulative_offset
    ELSE adjust_walk(buffer, (index + 1) % AESDCHAR_MAX_WRITE_OPERATIONS_SUPPORTED,
                     current_index, cumulative_offset + buffer.entry[index].size)

\* faulty variant: the wrapped case forgets the entries before in_offs
adjust_count_nowrap(buffer) ==
    IF buffer.full THEN AESDCHAR_MAX_WRITE_OPERATIONS_SUPPORTED - buffer.out_offs
    ELSE buffer.in_offs - buffer.out_offs

\* the count of valid entries aesd_adjust_file_offset computes
adjust_count(buffer) ==
    IF buffer.full THEN AESDCHAR_MAX_WRITE_OPERATIONS_SUPPORTED
    ELSE IF buffer.in_offs >= buffer.out_offs THEN buffer.in_offs - buffer.out_offs
    ELSE AESDCHAR_MAX_WRITE_OPERATIONS_SUPPORTED - buffer.out_offs + buffer.in_offs

\* aesd_adjust_file_offset with the lock held: [ret, f_pos]
aesd_adjust_file_offset(dev, pos, write_cmd, write_cmd_offset) ==
    LET buffer == dev.circular_buffer
        current_index == (buffer.out_offs + write_cmd) % AESDCHAR_MAX_WRITE_OPERATIONS_SUPPORTED
    IN  IF ~buffer.full /\ buffer.in_offs = buffer.out_offs THEN [ret |-> 0 - EINVAL, f_pos |-> pos]
        ELSE IF write_cmd >= adjust_count(buffer) THEN [ret |-> 0 - EINVAL, f_pos |-> pos]
        ELSE IF write_cmd_offset >= buffer.entry[current_index].size
             THEN [ret |-> 0 - EINVAL, f_pos |-> pos]
        ELSE [ret |-> 0,
              f_pos |-> adjust_walk(buffer, buffer.out_offs, current_index, 0) + write_cmd_offset]

\* faulty variant: a seek that fails is taken as a seek to the start of the log
ioctl_body_failure_is_start(dev, pos, write_cmd, write_cmd_offset) ==
    LET r == aesd_adjust_file_offset(dev, pos, write_cmd, write_cmd_offset)
    IN  IF r.ret # 0 THEN [ret |-> 0, f_pos |-> 0] ELSE [ret |-> r.f_pos, f_pos |-> r.f_pos]

\* aesd_ioctl, case AESDCHAR_IOCSEEKTO, after copy_from_user: [ret, f_pos]
ioctl_body(dev, pos, write_cmd, write_cmd_offset) ==
    LET r == aesd_adjust_file_offset(dev, pos, write_cmd, write_cmd_offset)
    IN  IF r.ret # 0 THEN r ELSE [ret |-> r.f_pos, f_pos |-> r.f_pos]

-----------------------------------------------------------------------------
(* The slots the walks over the ring visit *)

\* the most iterations a walk is followed for: one more than the slots there are
WalkFuel == AESDCHAR_MAX_WRITE_OPERATIONS_SUPPORTED + 1

\* a walk that did not start: the ring is empty
NoWalk == [visited |-> <<>>, terminated |-> TRUE]

RECURSIVE find_visits(_, _, _, _, _, _)
\* the loop of aesd_circular_buffer_find_entry_offset_for_fpos: the slots whose
\* entry it reads, and whether it returned within the iterations followed
find_visits(buffer, char_offset, currentIndex, cumulativeOffset, visited, fuel) ==
    LET currentEntry == buffer.entry[currentIndex]
        nextIndex == (currentIndex + 1) % AESDCHAR_MAX_WRITE_OPERATIONS_SUPPORTED
        seen == Append(visited, currentIndex)
    IN  IF fuel = 0 THEN [visited |-> visited, terminated |-> FALSE]
        ELSE IF char_offset < cumulativeOffset + currentEntry.size
             THEN [visited |-> seen, terminated |-> TRUE]
        ELSE IF nextIndex = buffer.in_offs THEN [visited |-> seen, terminated |-> TRUE]
        ELSE find_visits(buffer, char_offset, nextIndex,
                         cumulativeOffset + currentEntry.size, seen, fuel - 1)

find_entry_visits(buffer, char_offset) ==
    IF ~buffer.full /\ buffer.in_offs = buffer.out_offs THEN NoWalk
    ELSE find_visits(buffer, char_offset, buffer.out_offs, 0, <<>>, WalkFuel)

RECURSIVE total_visits(_, _, _, _)
\* the loop of aesd_get_total_size
total_visits(buffer, index, visited, fuel) ==
    LET nextIndex == (index + 1) % AESDCHAR_MAX_WRITE_OPERATIONS_SUPPORTED
        seen == Append(visited, index)
    IN  IF fuel = 0 THEN [visited |-> visited, terminated |-> FALSE]
        ELSE IF nextIndex = buffer.in_offs THEN [visited |-> seen, terminated |-> TRUE]
        ELSE total_visits(buffer, nextIndex, seen, fuel - 1)

get_total_size_visits(buffer) ==
    IF ~buffer.full /\ buffer.in_offs = buffer.out_offs THEN NoWalk
    ELSE total_visits(buffer, buffer.out_offs, <<>>, WalkFuel)

RECURSIVE adjust_visits(_, _, _, _, _)
\* the loop of aesd_adjust_file_offset: while (index != current_index)
adjust_visits(buffer, index, current_index, visited, fuel) ==
    IF index = current_index THEN [visited |-> visited, terminated |-> TRUE]
    ELSE IF fuel = 0 THEN [visited |-> visited, terminated |-> FALSE]
    ELSE adjust_visits(buffer, (index + 1) % AESDCHAR_MAX_WRITE_OPERATIONS_SUPPORTED,
                       current_index, Append(visited, index), fuel - 1)

\* the walk of a seek that passed the checks of write_cmd and write_cmd_offset
adjust_file_offset_visits(buffer, write_cmd) ==
    adjust_visits(buffer, buffer.out_offs,
                  (buffer.out_offs + write_cmd) % AESDCHAR_MAX_WRITE_OPERATIONS_SUPPORTED,
                  <<>>, WalkFuel)

-----------------------------------------------------------------------------
(* Inputs *)

\* the user buffer of a write of the given shape; its data bytes carry the tag
WriteBuf(shape, tag) ==
    IF shape = "rec" THEN <<tag, NL>>
    ELSE IF shape = "part" THEN <<tag>>
    ELSE IF shape = "nl" THEN <<NL>>
    ELSE IF shape = "mid" THEN <<tag, NL, tag>>
    ELSE IF shape = "two" THEN <<tag, NL, tag, NL>>
    ELSE IF shape = "three" THEN <<tag, tag, NL>>
    ELSE <<>>

AllShapes == {"rec", "part", "nl", "mid", "two", "empty"}
FileShapes == {"rec", "part"}

WriteFaults == {"none", "intr", "fault_scan", "enomem", "fault_copy"}

\* the last n elements of a sequence
LastN(seq, n) == IF Len(seq) <= n THEN seq ELSE SubSeq(seq, Len(seq) - n + 1, Len(seq))

Window == AESDCHAR_MAX_WRITE_OPERATIONS_SUPPORTED + 1

History_vars == <<committed, ncommits, pending, first_record, committers, writers>>

\* the history of a successful write: the bytes written so far that were terminated
\* by this call (pending bytes and the whole user buffer) are one committed record
History(t, buf) ==
    IF found_newline(buf)
    THEN /\ committed' = LastN(Append(committed, pending \o buf), Window)
         /\ committers' = committers \cup {t}
         /\ ncommits' = ncommits + 1
         /\ pending' = <<>>
         /\ first_record' = IF ncommits = 0 THEN pending \o buf ELSE first_record
         /\ writers' = [pending |-> {}, record |-> writers.pending \cup {t}]
    ELSE /\ pending' = pending \o buf
         /\ writers' = IF buf = <<>> THEN writers
                        ELSE [writers EXCEPT !.pending = @ \cup {t}]
         /\ UNCHANGED <<committed, ncommits, first_record, committers>>

\* locals of a handler that is not running
NoLocals == [buf |-> <<>>, fault |-> "none", new_buffer |-> NULL, old_entry_ptr |-> NULL]

-----------------------------------------------------------------------------
(* One step per handler *)

\* the state of aesdsocket
main_vars == <<IntTermSignaled, thread_list_head, thread_data, main_thread>>
lcd_vars == <<lcd_session, lcd_log>>
server_vars == <<file_mutex, session, client, nrecv, trace, main_vars, lcd_vars>>

\* locals of handle_client when the connection is accepted
NoSession ==
    [pc |-> "recv", receiveBuffer |-> <<>>, packetLen |-> 0, is_ioctl_cmd |-> FALSE,
     write_cmd |-> 0, write_cmd_offset |-> 0, ioctl_result |-> 0, fileFd |-> 0,
     buffer |-> <<>>]

\* the history of a connection: the bytes sent to the client in the read-back in
\* progress (or the last one), the log and the offset it started from, and
\* whether a read-back was completed
NoClient == [sent |-> <<>>, snapshot |-> <<>>, from |-> 0, packet |-> <<>>]

\* systemcalls: no call of do_exec_redirect was made; the caller has no
\* descriptor open on an output file
NotCalled ==
    [pc |-> "idle", fd |-> 0, open_fds |-> {}, child |-> "none", child_fds |-> {},
     result |-> "none", calls |-> 0]

\* a session thread that was not created: no struct thread_data, nothing joined
NoThread ==
    [pc |-> "none", thread_complete |-> FALSE, allocated |-> FALSE, joins |-> 0,
     freed_unjoined |-> FALSE]

\* the sets of connections whose history a specification may keep
Followed == {{}, {1}}

\* the state after insmod of a driver built with the given capacity
InitWith(capacity) ==
    /\ max_write_operations = capacity
    /\ aesd_device = aesd_init_module
    /\ heap = [p \in Ptrs |-> FreeCell]
    /\ bad_kfree = FALSE
    /\ f_pos = [f \in Files |-> 0]
    /\ retval = 0
    /\ last_op = "init"
    /\ last_by = 0
    /\ ubuf = <<>>
    /\ pc = [t \in Files |-> "idle"]
    /\ loc = [t \in Files |-> NoLocals]
    /\ nspecial = 0
    /\ committed = <<>>
    /\ ncommits = 0
    /\ pending = <<>>
    /\ first_record = <<>>
    /\ committers = {}
    /\ writers = [pending |-> {}, record |-> {}]
    /\ file_mutex = NULL
    /\ session = [c \in Files |-> NoSession]
    /\ client = [c \in Files |-> NoClient]
    /\ nrecv = 0
    /\ trace \in {[c \in followed |-> <<>>] : followed \in Followed}
    /\ IntTermSignaled = FALSE
    /\ thread_list_head = <<>>
    /\ thread_data = [t \in Files |-> NoThread]
    /\ main_thread = [pc |-> "while", new_thread |-> NULL, thread_entry |-> NULL]
    /\ lcd_session = [pc |-> "while", receiveBuffer |-> <<>>, space |-> 0]
    /\ lcd_log = [received |-> <<>>, written |-> <<>>, dropped |-> <<>>]
    /\ redirect = NotCalled

\* Spec, SpecWrite, SpecConc, SpecServer: no connection's history is kept
Init == InitWith(ReferenceCapacity) /\ DOMAIN trace = {}

\* aesd_write(filp, buf, count, f_pos); budget bounds the writes that are not plain records
Write(f, shape, fault, budget) ==
    LET buf == WriteBuf(shape, ncommits + 1)
        w == write_body(aesd_device, heap, bad_kfree, buf, fault)
        counted == shape # "rec" /\ fault = "none"
    IN  /\ (fault = "none" /\ found_newline(buf)) => ncommits < MaxCommits
        /\ counted => nspecial < budget
        /\ fault \in {"fault_scan", "fault_copy"} => Len(buf) > 0
        /\ nspecial' = IF counted THEN nspecial + 1 ELSE nspecial
        /\ last_op' = "write"
        /\ last_by' = f
        /\ ubuf' = <<>>
        /\ UNCHANGED <<pc, loc>>
        /\ IF fault = "intr"
           THEN /\ retval' = 0 - ERESTARTSYS
                /\ UNCHANGED <<aesd_device, heap, bad_kfree, f_pos, History_vars>>
           ELSE /\ aesd_device' = w.dev
                /\ heap' = w.heap
                /\ bad_kfree' = w.bad
                /\ retval' = w.ret
                /\ IF w.ok
                   THEN /\ f_pos' = [f_pos EXCEPT ![f] = aesd_get_total_size(w.dev)]
                        /\ History(f, buf)
                   ELSE UNCHANGED <<f_pos, History_vars>>

\* aesd_read(filp, buf, count, f_pos)
Read(f, count) ==
    LET r == read_body(aesd_device, heap, f_pos[f], count, "none")
    IN  /\ last_op' = "read"
        /\ retval' = r.ret
        /\ ubuf' = r.ubuf
        /\ f_pos' = [f_pos EXCEPT ![f] = r.f_pos]
        /\ last_by' = f
        /\ aesd_device' = aesd_read_dev(aesd_device, r.ret)
        /\ UNCHANGED <<heap, bad_kfree, pc, loc, nspecial, History_vars>>

\* aesd_llseek(filp, offset, whence)
Llseek(f, offset, whence) ==
    LET r == llseek_body(aesd_device, f_pos[f], offset, whence)
    IN  /\ last_op' = "llseek"
        /\ ubuf' = <<>>
        /\ retval' = r.ret
        /\ f_pos' = [f_pos EXCEPT ![f] = r.f_pos]
        /\ last_by' = f
        /\ UNCHANGED <<aesd_device, heap, bad_kfree, pc, loc, nspecial, History_vars>>

\* aesd_ioctl(filp, AESDCHAR_IOCSEEKTO, &seekto)
Ioctl(f, write_cmd, write_cmd_offset) ==
    LET r == ioctl_body(aesd_device, f_pos[f], write_cmd, write_cmd_offset)
    IN  /\ last_op' = "ioctl"
        /\ ubuf' = <<>>
        /\ retval' = r.ret
        /\ f_pos' = [f_pos EXCEPT ![f] = r.f_pos]
        /\ last_by' = f
        /\ UNCHANGED <<aesd_device, heap, bad_kfree, pc, loc, nspecial, History_vars>>

\* the largest entry size in the ring
MaxEntrySize(buffer) ==
    CHOOSE m \in {buffer.entry[i].size : i \in Slots} :
        \A i \in Slots : buffer.entry[i].size <= m

\* (offset, whence) pairs: around the start, the current position and the end
SeekInputs(dev) ==
    LET size == aesd_get_total_size(dev)
    IN  {<<o, SEEK_SET>> : o \in {0 - 1, 0, 1, size - 1, size, size + 1}}
        \cup {<<o, SEEK_CUR>> : o \in (0 - 1)..1}
        \cup {<<o, SEEK_END>> : o \in {0 - size - 1, 0 - 1, 0, 1}}
        \cup {<<0, SEEK_END + 1>>}

\* (write_cmd, write_cmd_offset) pairs: the first entry, the last and one past it,
\* with the first offset, the last and one past it
SeekToInputs(buffer) ==
    LET n == adjust_count(buffer)
        size(c) == buffer.entry[(buffer.out_offs + c) % AESDCHAR_MAX_WRITE_OPERATIONS_SUPPORTED].size
    IN  {<<c, o>> \in ({0, n - 1, n} \ {0 - 1}) \X (0..(MaxEntrySize(buffer) + 1)) :
            o \in {0, size(c) - 1, size(c)}}

\* Spec: every handler on one open file; writes are plain records, and a partial
\* write may precede the records numbered in PartialBefore
PartialBefore == {1, 3, AESDCHAR_MAX_WRITE_OPERATIONS_SUPPORTED + 1}

DoWrite ==
    /\ UNCHANGED <<max_write_operations, server_vars, redirect>>
    /\ \E f \in SeqFiles, shape \in FileShapes :
            /\ shape = "part" => (pending = <<>> /\ ncommits + 1 \in PartialBefore)
            /\ Write(f, shape, "none", Cardinality(PartialBefore))

DoRead ==
    /\ UNCHANGED <<max_write_operations, server_vars, redirect>>
    /\ \E f \in SeqFiles, count \in 0..MaxCount : Read(f, count)

DoLlseek ==
    /\ UNCHANGED <<max_write_operations, server_vars, redirect>>
    /\ \E f \in SeqFiles, in \in SeekInputs(aesd_device) : Llseek(f, in[1], in[2])

DoIoctl ==
    /\ UNCHANGED <<max_write_operations, server_vars, redirect>>
    /\ \E f \in SeqFiles, in \in SeekToInputs(aesd_device.circular_buffer) : Ioctl(f, in[1], in[2])

Next == DoWrite \/ DoRead \/ DoLlseek \/ DoIoctl

Spec == Init /\ [][Next]_vars

\* SpecWrite: the writes alone, of every shape, at most MaxIrregular of them not plain
DoWriteAny ==
    /\ UNCHANGED <<max_write_operations, server_vars, redirect>>
    /\ \E f \in SeqFiles, shape \in AllShapes, fault \in WriteFaults :
            Write(f, shape, fault, MaxIrregular)

NextWrite == DoWriteAny

SpecWrite == Init /\ [][NextWrite]_vars

\* SpecSmall: a driver built with two slots; every write is a three-byte record
\* "<tag><tag>\n", reads ask for one byte or for ScenarioCount bytes
ScenarioCount == 10

InitSmall == InitWith(ScenarioCapacity) /\ DOMAIN trace = {}

DoWriteRecord ==
    /\ UNCHANGED <<max_write_operations, server_vars, redirect>>
    /\ \E f \in SeqFiles : Write(f, "three", "none", MaxCommits)

DoReadLong ==
    /\ UNCHANGED <<max_write_operations, server_vars, redirect>>
    /\ \E f \in SeqFiles, count \in {1, ScenarioCount} : Read(f, count)

NextSmall == DoWriteRecord \/ DoReadLong \/ DoLlseek \/ DoIoctl

SpecSmall == InitSmall /\ [][NextSmall]_vars

-----------------------------------------------------------------------------
(* One step per statement group, two threads: SpecConc.  It follows the lock, the
   ring and the heap through the handlers.  Each request is made on a freshly
   opened file that is closed when the handler returns, as aesdsocket.c does, so
   filp->f_pos is 0 when a handler is entered and is dropped with the file when
   it returns; the value a handler returns is the one Spec records, computed by
   the same operators from the state the handler sees while it holds the lock.
   A thread blocked or interrupted in mutex_lock_interruptible is a thread that
   has not entered. *)

\* faulty variant: the mutex never makes a caller wait
mutex_is_unlocked_always(dev) == TRUE

\* mutex_lock_interruptible(&dev->lock) can return 0 now
mutex_is_unlocked(dev) == dev.lock = NULL

\* the state record the write_* operators work on, for thread t
State(t) ==
    [dev |-> aesd_device, heap |-> heap, bad |-> bad_kfree,
     old_entry_ptr |-> loc[t].old_entry_ptr]

\* the handler of thread t goes on at label l with state record s
Goto(t, s, l) ==
    /\ aesd_device' = s.dev
    /\ heap' = s.heap
    /\ bad_kfree' = s.bad
    /\ loc' = [loc EXCEPT ![t].old_entry_ptr = s.old_entry_ptr]
    /\ pc' = [pc EXCEPT ![t] = l]
    /\ UNCHANGED <<f_pos, retval, last_op, last_by, ubuf, nspecial, History_vars>>

\* mutex_unlock(&dev->lock) and return, with device state s
Return(t, s) ==
    /\ aesd_device' = [s.dev EXCEPT !.lock = NULL]
    /\ heap' = s.heap
    /\ bad_kfree' = s.bad
    /\ pc' = [pc EXCEPT ![t] = "idle"]
    /\ loc' = [loc EXCEPT ![t] = NoLocals]
    /\ UNCHANGED <<f_pos, retval, last_op, last_by, ubuf, nspecial, History_vars>>

\* entry of a handler: mutex_lock_interruptible returns 0
Enter(t, l, locals) ==
    /\ pc[t] = "idle"
    /\ mutex_is_unlocked(aesd_device)
    /\ aesd_device' = [aesd_device EXCEPT !.lock = t]
    /\ pc' = [pc EXCEPT ![t] = l]
    /\ loc' = [loc EXCEPT ![t] = locals]
    /\ UNCHANGED <<heap, bad_kfree, f_pos, retval, last_op, last_by, ubuf>>

\* aesd_write: entry and mutex_lock_interruptible.  The record this call commits
\* enters the history when the lock is granted.
ConcWriteLock(t, shape, fault) ==
    LET buf == WriteBuf(shape, ncommits + 1)
        counted == shape # "rec" /\ fault = "none"
    IN  /\ (fault = "none" /\ found_newline(buf)) => ncommits < MaxCommits
        /\ counted => nspecial < MaxSpecial
        /\ Enter(t, "w_scan", [NoLocals EXCEPT !.buf = buf, !.fault = fault])
        /\ nspecial' = IF counted THEN nspecial + 1 ELSE nspecial
        /\ IF fault = "none" THEN History(t, buf) ELSE UNCHANGED History_vars

\* aesd_write: the scan of the user buffer for '\n' with get_user
ConcWriteScan(t) ==
    /\ pc[t] = "w_scan"
    /\ IF loc[t].fault = "fault_scan"
       THEN Return(t, State(t))
       ELSE Goto(t, State(t), "w_alloc")

\* aesd_write: kmalloc of new_buffer, memcpy and copy_from_user into it
ConcWriteAlloc(t) ==
    LET a == kmalloc(heap, aesd_device.temp_buffer_size + Len(loc[t].buf))
        s == [State(t) EXCEPT !.heap = a.heap]
    IN  /\ pc[t] = "w_alloc"
        /\ IF loc[t].fault = "enomem" \/ a.ptr = NULL
           THEN Return(t, State(t))
           ELSE IF loc[t].fault = "fault_copy"
           THEN Return(t, write_copy_fault(s, a.ptr))
           ELSE /\ aesd_device' = aesd_device
                /\ heap' = write_copy(s, a.ptr, loc[t].buf).heap
                /\ loc' = [loc EXCEPT ![t].new_buffer = a.ptr]
                /\ pc' = [pc EXCEPT ![t] = "w_swap"]
                /\ UNCHANGED <<bad_kfree, f_pos, retval, last_op, last_by, ubuf,
                               nspecial, History_vars>>

\* aesd_write: kfree of the old temp_buffer, temp_buffer = new_buffer
ConcWriteSwap(t) ==
    /\ pc[t] = "w_swap"
    /\ Goto(t, write_swap(State(t), loc[t].new_buffer, Len(loc[t].buf)),
            IF found_newline(loc[t].buf) THEN "w_store" ELSE "w_return")

\* aesd_write: old_entry_ptr; aesd_circular_buffer_add_entry: the store at in_offs
ConcWriteStore(t) ==
    LET s == write_old_entry_ptr(State(t))
    IN  /\ pc[t] = "w_store"
        /\ Goto(t, [s EXCEPT !.dev.circular_buffer =
                                 add_entry_store(s.dev.circular_buffer, write_new_entry(s))],
                "w_advance_out")

\* aesd_circular_buffer_add_entry: out_offs
ConcWriteAdvanceOut(t) ==
    /\ pc[t] = "w_advance_out"
    /\ Goto(t, [State(t) EXCEPT !.dev.circular_buffer = add_entry_advance_out(@)],
            "w_advance_in")

\* aesd_circular_buffer_add_entry: in_offs and full
ConcWriteAdvanceIn(t) ==
    /\ pc[t] = "w_advance_in"
    /\ Goto(t, [State(t) EXCEPT !.dev.circular_buffer = add_entry_advance_in(@)], "w_free")

\* aesd_write: kfree(old_entry_ptr)
ConcWriteFree(t) ==
    /\ pc[t] = "w_free"
    /\ Goto(t, write_free_old(State(t)), "w_reset")

\* aesd_write: temp_buffer = NULL, temp_buffer_size = 0
ConcWriteReset(t) ==
    /\ pc[t] = "w_reset"
    /\ Goto(t, write_reset_temp(State(t)), "w_return")

\* aesd_write: *f_pos, mutex_unlock, return count
ConcWriteReturn(t) ==
    /\ pc[t] = "w_return"
    /\ Return(t, State(t))

\* aesd_read: entry and mutex_lock_interruptible
ConcReadLock(t) ==
    /\ Enter(t, "r_body", NoLocals)
    /\ UNCHANGED <<nspecial, History_vars>>

\* aesd_read: find the entry, copy_to_user, mutex_unlock
ConcReadBody(t) ==
    /\ pc[t] = "r_body"
    /\ Return(t, State(t))

\* aesd_llseek: entry and mutex_lock_interruptible
ConcLlseekLock(t) ==
    /\ Enter(t, "s_body", NoLocals)
    /\ UNCHANGED <<nspecial, History_vars>>

\* aesd_llseek: aesd_get_total_size, fixed_size_llseek, mutex_unlock
ConcLlseekBody(t) ==
    /\ pc[t] = "s_body"
    /\ Return(t, State(t))

\* aesd_adjust_file_offset: entry and mutex_lock_interruptible
ConcIoctlLock(t) ==
    /\ Enter(t, "i_body", NoLocals)
    /\ UNCHANGED <<nspecial, History_vars>>

\* aesd_adjust_file_offset: the checks, the walk, mutex_unlock
ConcIoctlBody(t) ==
    /\ pc[t] = "i_body"
    /\ Return(t, State(t))

ConcWriteFaults == {"none", "fault_scan", "enomem", "fault_copy"}

\* the writes of the two threads: a record, a piece of one, and a write of no bytes
ConcShapes == {"rec", "part", "empty"}

ConcEnterWrite ==
    /\ UNCHANGED <<max_write_operations, server_vars, redirect>>
    /\ \E t \in Files, shape \in ConcShapes, fault \in ConcWriteFaults :
            ConcWriteLock(t, shape, fault)
ConcEnterRead ==
    /\ UNCHANGED <<max_write_operations, server_vars, redirect>>
    /\ \E t \in Files : ConcReadLock(t)
ConcEnterLlseek ==
    /\ UNCHANGED <<max_write_operations, server_vars, redirect>>
    /\ \E t \in Files : ConcLlseekLock(t)
ConcEnterIoctl ==
    /\ UNCHANGED <<max_write_operations, server_vars, redirect>>
    /\ \E t \in Files : ConcIoctlLock(t)
ConcScan ==
    /\ UNCHANGED <<max_write_operations, server_vars, redirect>>
    /\ \E t \in Files : ConcWriteScan(t)
ConcAlloc ==
    /\ UNCHANGED <<max_write_operations, server_vars, redirect>>
    /\ \E t \in Files : ConcWriteAlloc(t)
ConcSwap ==
    /\ UNCHANGED <<max_write_operations, server_vars, redirect>>
    /\ \E t \in Files : ConcWriteSwap(t)
ConcStore ==
    /\ UNCHANGED <<max_write_operations, server_vars, redirect>>
    /\ \E t \in Files : ConcWriteStore(t)
ConcAdvanceOut ==
    /\ UNCHANGED <<max_write_operations, server_vars, redirect>>
    /\ \E t \in Files : ConcWriteAdvanceOut(t)
ConcAdvanceIn ==
    /\ UNCHANGED <<max_write_operations, server_vars, redirect>>
    /\ \E t \in Files : ConcWriteAdvanceIn(t)
ConcFree ==
    /\ UNCHANGED <<max_write_operations, server_vars, redirect>>
    /\ \E t \in Files : ConcWriteFree(t)
ConcReset ==
    /\ UNCHANGED <<max_write_operations, server_vars, redirect>>
    /\ \E t \in Files : ConcWriteReset(t)
ConcReturn ==
    /\ UNCHANGED <<max_write_operations, server_vars, redirect>>
    /\ \E t \in Files : ConcWriteReturn(t)
ConcRead ==
    /\ UNCHANGED <<max_write_operations, server_vars, redirect>>
    /\ \E t \in Files : ConcReadBody(t)
ConcLlseek ==
    /\ UNCHANGED <<max_write_operations, server_vars, redirect>>
    /\ \E t \in Files : ConcLlseekBody(t)
ConcIoctl ==
    /\ UNCHANGED <<max_write_operations, server_vars, redirect>>
    /\ \E t \in Files : ConcIoctlBody(t)

NextConc ==
    \/ ConcEnterWrite \/ ConcScan \/ ConcAlloc \/ ConcSwap \/ ConcStore
    \/ ConcAdvanceOut \/ ConcAdvanceIn \/ ConcFree \/ ConcReset \/ ConcReturn
    \/ ConcEnterRead \/ ConcRead
    \/ ConcEnterLlseek \/ ConcLlseek
    \/ ConcEnterIoctl \/ ConcIoctl

SpecConc == Init /\ [][NextConc]_vars

-----------------------------------------------------------------------------
(* aesdsocket.c: handle_client threads over the device, SpecServer.  The driver's
   handlers are taken as one step each (they hold dev->lock for their whole
   body).  A byte a client sends is 10 * k + c for the k-th receipt of the run
   and connection c; a seek command is the token SeekPrefix for the text
   "AESDCHAR_IOCSEEKTO:", digit tokens, Comma and the terminator. *)

BUFFER_SIZE == 40000

MaxPackets == 4      \* receipts per behaviour, all connections together

SeekPrefix == 0 - 2
SeekPrefixLength == 19
Comma == 0 - 3
Space == 0 - 4
Plus == 0 - 5

\* the character of decimal digit d
Digit(d) == 100 + d
IsDigit(b) == b >= Digit(0) /\ b <= Digit(9)

\* isspace(b), for the characters of the model
isspace(b) == b \in {Space, NL}

\* the text "AESDCHAR_IOCSEEKTO:X,Y\n" with one-digit X and Y
SeekCommand(x, y) == <<SeekPrefix, Digit(x), Comma, Digit(y), NL>>

\* the number of characters the first length tokens stand for
RECURSIVE CharLength(_, _)
CharLength(buffer, length) ==
    IF length = 0 THEN 0
    ELSE CharLength(buffer, length - 1)
             + (IF buffer[length] = SeekPrefix THEN SeekPrefixLength ELSE 1)

\* what the bytes of receiveBuffer after the received ones may hold: the array is
\* not initialised and keeps old bytes, so the first such byte is a digit or not
StaleBytes == {Digit(7), Comma}

\* buffer[i] as a C string function reads it: a received byte, or past them the
\* stale byte and then a byte that ends every scan
ByteAt(buffer, i, stale) ==
    IF i <= Len(buffer) THEN buffer[i]
    ELSE IF i = Len(buffer) + 1 THEN stale
    ELSE Comma

\* strtoul: the white space skipped from i on
RECURSIVE strtoul_space(_, _, _)
strtoul_space(buffer, i, stale) ==
    IF isspace(ByteAt(buffer, i, stale)) THEN strtoul_space(buffer, i + 1, stale) ELSE i

\* An unsigned long (64 bits) is kept in limbs, its value being
\* high * 2^32 + mid * 2^16 + low with low and mid below 2^16, because the
\* integers of the model are narrower than it.
Limb == 65536
Zero == [low |-> 0, mid |-> 0, high |-> 0]

\* strtoul: the value so far times ten plus the digit d
strtoul_accumulate(acc, d) ==
    LET low == acc.low * 10 + d
        mid == acc.mid * 10 + (low \div Limb)
    IN  [low |-> low % Limb, mid |-> mid % Limb, high |-> acc.high * 10 + (mid \div Limb)]

\* (unsigned int)x_val: the low 32 bits
unsigned_int(x_val) == x_val.mid * Limb + x_val.low

\* strtoul: the digits from i on, [val, endptr]
RECURSIVE strtoul_digits(_, _, _, _)
strtoul_digits(buffer, i, acc, stale) ==
    IF IsDigit(ByteAt(buffer, i, stale))
    THEN strtoul_digits(buffer, i + 1,
                        strtoul_accumulate(acc, ByteAt(buffer, i, stale) - Digit(0)), stale)
    ELSE [val |-> acc, endptr |-> i]

\* strtoul(nptr, &endptr, 10): white space, an optional '+', digits; without a
\* digit no conversion is made and endptr is nptr.  ('-' is not a character of
\* the model: its result does not fit the integers of the model.)
strtoul(buffer, nptr, stale) ==
    LET sign == strtoul_space(buffer, nptr, stale)
        first == IF ByteAt(buffer, sign, stale) = Plus THEN sign + 1 ELSE sign
        digits == strtoul_digits(buffer, first, Zero, stale)
    IN  IF digits.endptr = first THEN [val |-> Zero, endptr |-> nptr] ELSE digits

\* strchr(values_start, ','): the first comma from token 2 on, 0 for NULL.  The
\* string is not terminated at the packet: the search runs on through the bytes
\* received after it and the stale ones.
strchr_comma(buffer, stale) ==
    LET at == {i \in 2..(Len(buffer) + 2) : ByteAt(buffer, i, stale) = Comma}
    IN  CHOOSE i \in at : \A j \in at : i <= j

\* parse_ioctl_seek_command(buffer, length, &write_cmd, &write_cmd_offset), buffer
\* being receiveBuffer and length the packet's
parse_ioctl_seek_command(buffer, length, stale) ==
    LET no == [ok |-> FALSE, write_cmd |-> 0, write_cmd_offset |-> 0]
        comma_ptr == strchr_comma(buffer, stale)
        x == strtoul(buffer, 2, stale)
        y == strtoul(buffer, comma_ptr + 1, stale)
    IN  IF CharLength(buffer, length) < 23 THEN no
        ELSE IF buffer[length] # NL THEN no
        ELSE IF buffer[1] # SeekPrefix THEN no
        ELSE IF x.endptr # comma_ptr THEN no
        ELSE IF y.endptr # length THEN no
        ELSE [ok |-> TRUE, write_cmd |-> unsigned_int(x.val),
              write_cmd_offset |-> unsigned_int(y.val)]

\* memchr(receiveBuffer, '\n', receiveBufferLen): index of the first terminator, 0 if none
memchr(buffer) ==
    LET at == {i \in 1..Len(buffer) : buffer[i] = NL}
    IN  IF at = {} THEN 0 ELSE CHOOSE i \in at : \A j \in at : i <= j

\* faulty variant: file_mutex never makes a thread wait
pthread_mutex_is_unlocked_always(mutex) == TRUE

\* pthread_mutex_lock(&file_mutex) can return now
pthread_mutex_is_unlocked(mutex) == mutex = NULL

\* faulty variant: the mutex stays with the thread that held it
pthread_mutex_unlock_missing(mutex) == mutex

\* pthread_mutex_unlock(&file_mutex): the mutex afterwards
pthread_mutex_unlock(mutex) == NULL

\* faulty variant: the whole buffer is dropped with the processed packet
remove_packet_and_rest(buffer, packetLen) == <<>>

\* memmove(receiveBuffer, receiveBuffer + packetLen, remainingLen)
remove_packet(buffer, packetLen) == SubSeq(buffer, packetLen + 1, Len(buffer))

\* the bytes of the log, oldest entry first
LogBytes(dev, h) ==
    LET buffer == dev.circular_buffer
        n == IF buffer.full THEN AESDCHAR_MAX_WRITE_OPERATIONS_SUPPORTED
             ELSE (buffer.in_offs - buffer.out_offs + AESDCHAR_MAX_WRITE_OPERATIONS_SUPPORTED)
                      % AESDCHAR_MAX_WRITE_OPERATIONS_SUPPORTED
        RECURSIVE upto(_)
        upto(i) == IF i = 0 THEN <<>>
                   ELSE LET e == buffer.entry[(buffer.out_offs + i - 1)
                                                  % AESDCHAR_MAX_WRITE_OPERATIONS_SUPPORTED]
                        IN  upto(i - 1) \o Peek(h, e.buffptr, 0, e.size)
    IN  upto(n)

\* what the driver-only specifications record, untouched by the server
driver_log == <<max_write_operations, pc, loc, nspecial, retval, last_op, last_by, ubuf>>

\* what a step that makes no system call on the device leaves alone
device_vars == <<aesd_device, heap, bad_kfree, f_pos, History_vars>>

\* the history of connection c grows by event e, where a history is kept
Trace(c, e) ==
    trace' = IF c \in DOMAIN trace THEN [trace EXCEPT ![c] = Append(@, e)] ELSE trace

\* what the chunks a client may deliver on its k-th receipt are
ClientChunks(c, k) ==
    {<<10 * k + c, NL>>, <<10 * k + c>>, SeekCommand(0, 0), SeekCommand(1, 1)}

\* recv(clientFd, receiveBuffer, sizeof(receiveBuffer), 0) returns the chunk
SrvRecv(c, chunk) ==
    /\ session[c].pc = "recv"
    /\ nrecv < MaxPackets
    /\ nrecv' = nrecv + 1
    /\ session' = [session EXCEPT ![c].receiveBuffer = @ \o chunk, ![c].pc = "scan"]
    /\ Trace(c, [op |-> "recv", packet |-> chunk, record |-> chunk])
    /\ UNCHANGED <<file_mutex, client, device_vars, driver_log>>

\* recv returns 0 or fails: the connection is closed
SrvClosed(c) ==
    /\ session[c].pc = "recv"
    /\ session' = [session EXCEPT ![c].pc = "closed"]
    /\ UNCHANGED <<file_mutex, client, nrecv, trace, device_vars, driver_log>>

\* the test of the newline loop, parse_ioctl_seek_command, and the test for
\* remaining bytes after the loop
SrvScan(c) ==
    \E stale \in StaleBytes :
        LET me == session[c]
            at == memchr(me.receiveBuffer)
            cmd == parse_ioctl_seek_command(me.receiveBuffer, at, stale)
        IN  /\ me.pc = "scan"
            /\ session' = [session EXCEPT ![c] =
                  IF at > 0
                  THEN [me EXCEPT !.packetLen = at, !.is_ioctl_cmd = cmd.ok,
                                  !.write_cmd = cmd.write_cmd,
                                  !.write_cmd_offset = cmd.write_cmd_offset,
                                  !.pc = "lock"]
                  ELSE IF Len(me.receiveBuffer) > 0 THEN [me EXCEPT !.pc = "lock_rest"]
                  ELSE [me EXCEPT !.pc = "recv"]]
            /\ UNCHANGED <<file_mutex, client, nrecv, trace, device_vars, driver_log>>

\* pthread_mutex_lock(&file_mutex) before the file operations of a packet
SrvLock(c) ==
    /\ session[c].pc = "lock"
    /\ pthread_mutex_is_unlocked(file_mutex)
    /\ file_mutex' = c
    /\ session' = [session EXCEPT ![c].pc = IF session[c].is_ioctl_cmd THEN "ioctl" ELSE "append"]
    /\ UNCHANGED <<client, nrecv, trace, device_vars, driver_log>>

\* open(PACKET_FILE, O_RDWR) or fopen(PACKET_FILE, "a") fails: the mutex is
\* unlocked and the connection given up
SrvOpenFails(c) ==
    /\ session[c].pc \in {"ioctl", "append", "append_rest"}
    /\ file_mutex' = pthread_mutex_unlock(file_mutex)
    /\ session' = [session EXCEPT ![c].fileFd = 0 - 1, ![c].pc = "closed"]
    /\ UNCHANGED <<client, nrecv, trace, device_vars, driver_log>>

\* fopen(PACKET_FILE, "a"), fwrite of the packet, fclose; send_file_to_client: fopen "r"
SrvAppend(c) ==
    LET me == session[c]
        packet == SubSeq(me.receiveBuffer, 1, me.packetLen)
        w == write_body(aesd_device, heap, bad_kfree, packet, "none")
    IN  /\ me.pc = "append"
        /\ aesd_device' = w.dev
        /\ heap' = w.heap
        /\ bad_kfree' = w.bad
        /\ History(c, packet)
        /\ f_pos' = [f_pos EXCEPT ![c] = 0]
        /\ session' = [session EXCEPT ![c].pc = "fread", ![c].buffer = <<>>]
        /\ client' = [client EXCEPT ![c] =
              [sent |-> <<>>, snapshot |-> LogBytes(w.dev, w.heap), from |-> 0,
               packet |-> packet]]
        /\ Trace(c, [op |-> "data", packet |-> packet, record |-> pending \o packet])
        /\ UNCHANGED <<file_mutex, nrecv, driver_log>>

\* send_file_to_client: fread(buffer, 1, BUFFER_SIZE, readFile), one read() at a time
SrvFread(c) ==
    LET me == session[c]
        r == read_body(aesd_device, heap, f_pos[c], BUFFER_SIZE, "none")
    IN  /\ me.pc = "fread"
        /\ IF r.ret > 0
           THEN /\ session' = [session EXCEPT ![c].buffer = @ \o r.ubuf]
                /\ f_pos' = [f_pos EXCEPT ![c] = r.f_pos]
           ELSE /\ session' = [session EXCEPT ![c].pc =
                                   IF me.buffer # <<>> THEN "send" ELSE "unlock"]
                /\ UNCHANGED f_pos
        /\ UNCHANGED <<file_mutex, client, nrecv, trace, aesd_device, heap, bad_kfree,
                       History_vars, driver_log>>

\* send(socketFd, bufferPtr, remainingToSend, 0) until the chunk is out
SrvSend(c) ==
    /\ session[c].pc \in {"send", "send_fd"}
    /\ client' = [client EXCEPT ![c].sent = @ \o session[c].buffer]
    /\ session' = [session EXCEPT ![c].buffer = <<>>,
                                  ![c].pc = IF session[c].pc = "send" THEN "fread" ELSE "read_fd"]
    /\ UNCHANGED <<file_mutex, nrecv, trace, device_vars, driver_log>>

\* send fails: the file is closed, file_mutex unlocked, the connection given up
SrvSendFails(c) ==
    /\ session[c].pc \in {"send", "send_fd"}
    /\ file_mutex' = pthread_mutex_unlock(file_mutex)
    /\ session' = [session EXCEPT ![c].buffer = <<>>, ![c].pc = "closed"]
    /\ UNCHANGED <<client, nrecv, trace, device_vars, driver_log>>

\* pthread_mutex_unlock(&file_mutex); the processed packet is removed
SrvUnlock(c) ==
    LET me == session[c]
    IN  /\ me.pc = "unlock"
        /\ file_mutex' = pthread_mutex_unlock(file_mutex)
        /\ session' = [session EXCEPT ![c] =
              [me EXCEPT !.receiveBuffer = remove_packet(@, me.packetLen),
                         !.packetLen = 0, !.is_ioctl_cmd = FALSE,
                         !.write_cmd = 0, !.write_cmd_offset = 0,
                         !.ioctl_result = 0, !.fileFd = 0, !.pc = "scan"]]
        /\ UNCHANGED <<client, nrecv, trace, device_vars, driver_log>>

\* open(PACKET_FILE, O_RDWR); ioctl(fileFd, AESDCHAR_IOCSEEKTO, &seekto)
SrvIoctl(c) ==
    LET me == session[c]
        packet == SubSeq(me.receiveBuffer, 1, me.packetLen)
        r == ioctl_body(aesd_device, 0, me.write_cmd, me.write_cmd_offset)
    IN  /\ me.pc = "ioctl"
        /\ IF r.ret < 0
           THEN /\ file_mutex' = pthread_mutex_unlock(file_mutex)
                /\ session' = [session EXCEPT ![c].ioctl_result = r.ret, ![c].pc = "closed"]
                /\ f_pos' = [f_pos EXCEPT ![c] = 0]
                /\ UNCHANGED client
           ELSE /\ f_pos' = [f_pos EXCEPT ![c] = r.f_pos]
                /\ session' = [session EXCEPT ![c].ioctl_result = r.ret, ![c].fileFd = 3,
                                              ![c].pc = "read_fd", ![c].buffer = <<>>]
                /\ client' = [client EXCEPT ![c] =
                      [sent |-> <<>>, snapshot |-> LogBytes(aesd_device, heap),
                       from |-> r.f_pos, packet |-> <<>>]]
                /\ UNCHANGED file_mutex
        /\ Trace(c, [op |-> "seek", packet |-> packet, record |-> packet])
        /\ UNCHANGED <<nrecv, aesd_device, heap, bad_kfree, History_vars, driver_log>>

\* send_file_to_client_fd: read(fileFd, buffer, BUFFER_SIZE)
SrvReadFd(c) ==
    LET r == read_body(aesd_device, heap, f_pos[c], BUFFER_SIZE, "none")
    IN  /\ session[c].pc = "read_fd"
        /\ IF r.ret > 0
           THEN /\ session' = [session EXCEPT ![c].buffer = r.ubuf, ![c].pc = "send_fd"]
                /\ f_pos' = [f_pos EXCEPT ![c] = r.f_pos]
           ELSE /\ session' = [session EXCEPT ![c].pc = "unlock"]
                /\ UNCHANGED f_pos
        /\ UNCHANGED <<file_mutex, client, nrecv, trace, aesd_device, heap, bad_kfree,
                       History_vars, driver_log>>

\* pthread_mutex_lock(&file_mutex) before the remaining bytes are written
SrvLockRest(c) ==
    /\ session[c].pc = "lock_rest"
    /\ pthread_mutex_is_unlocked(file_mutex)
    /\ file_mutex' = c
    /\ session' = [session EXCEPT ![c].pc = "append_rest"]
    /\ UNCHANGED <<client, nrecv, trace, device_vars, driver_log>>

\* fopen "a", fwrite of the remaining bytes, fclose, unlock, receiveBufferLen = 0
SrvAppendRest(c) ==
    LET me == session[c]
        w == write_body(aesd_device, heap, bad_kfree, me.receiveBuffer, "none")
    IN  /\ me.pc = "append_rest"
        /\ aesd_device' = w.dev
        /\ heap' = w.heap
        /\ bad_kfree' = w.bad
        /\ History(c, me.receiveBuffer)
        /\ file_mutex' = pthread_mutex_unlock(file_mutex)
        /\ session' = [session EXCEPT ![c].receiveBuffer = <<>>, ![c].pc = "recv"]
        /\ Trace(c, [op |-> "rest", packet |-> me.receiveBuffer, record |-> me.receiveBuffer])
        /\ UNCHANGED <<f_pos, client, nrecv, driver_log>>

DoRecv == (\E c \in Files : \E chunk \in ClientChunks(c, nrecv + 1) : SrvRecv(c, chunk)) /\ UNCHANGED <<main_vars, lcd_vars, redirect>>
DoClosed == (\E c \in Files : SrvClosed(c)) /\ UNCHANGED <<main_vars, lcd_vars, redirect>>
DoScan == (\E c \in Files : SrvScan(c)) /\ UNCHANGED <<main_vars, lcd_vars, redirect>>
DoLock == (\E c \in Files : SrvLock(c)) /\ UNCHANGED <<main_vars, lcd_vars, redirect>>
DoOpenFails == (\E c \in Files : SrvOpenFails(c)) /\ UNCHANGED <<main_vars, lcd_vars, redirect>>
DoAppend == (\E c \in Files : SrvAppend(c)) /\ UNCHANGED <<main_vars, lcd_vars, redirect>>
DoFread == (\E c \in Files : SrvFread(c)) /\ UNCHANGED <<main_vars, lcd_vars, redirect>>
DoSend == (\E c \in Files : SrvSend(c)) /\ UNCHANGED <<main_vars, lcd_vars, redirect>>
DoSendFails == (\E c \in Files : SrvSendFails(c)) /\ UNCHANGED <<main_vars, lcd_vars, redirect>>
DoUnlock == (\E c \in Files : SrvUnlock(c)) /\ UNCHANGED <<main_vars, lcd_vars, redirect>>
DoIoctlSeek == (\E c \in Files : SrvIoctl(c)) /\ UNCHANGED <<main_vars, lcd_vars, redirect>>
DoReadFd == (\E c \in Files : SrvReadFd(c)) /\ UNCHANGED <<main_vars, lcd_vars, redirect>>
DoLockRest == (\E c \in Files : SrvLockRest(c)) /\ UNCHANGED <<main_vars, lcd_vars, redirect>>
DoAppendRest == (\E c \in Files : SrvAppendRest(c)) /\ UNCHANGED <<main_vars, lcd_vars, redirect>>

NextServer ==
    \/ DoRecv \/ DoClosed \/ DoScan \/ DoLock \/ DoOpenFails \/ DoAppend \/ DoFread
    \/ DoSend \/ DoSendFails \/ DoUnlock \/ DoIoctlSeek \/ DoReadFd \/ DoLockRest
    \/ DoAppendRest

SpecServer == Init /\ [][NextServer]_vars

\* SpecSession: one connection, whose bytes arrive in chunks of every kind: whole
\* records, pieces of a record, several records at once, and seek-prefixed
\* records that are not "AESDCHAR_IOCSEEKTO:X,Y\n"
MaxReceipts == 3

\* the digits of 4294967296, the first number an unsigned int cannot hold
TwoTo32 ==
    <<Digit(4), Digit(2), Digit(9), Digit(4), Digit(9), Digit(6), Digit(7), Digit(2),
      Digit(9), Digit(6)>>

\* what the k-th receipt of the connection may deliver
StreamChunks(k) ==
    LET t == 10 * k + 1
    IN  {<<t, NL>>, <<t>>, SeekCommand(0, 0), SeekCommand(1, 1),
         <<SeekPrefix, Digit(0)>>, <<Comma, Digit(0), NL>>,
         <<t, NL, t, t, NL>>,
         <<t, NL>> \o SeekCommand(0, 0),
         <<SeekPrefix, Digit(1), NL>>,
         <<SeekPrefix, Digit(1), Digit(2), Digit(3), NL>>,
         <<SeekPrefix, Comma, Digit(0), Digit(0), NL>>,
         <<SeekPrefix, Plus, Digit(0), Comma, Digit(0), NL>>,
         <<SeekPrefix, Digit(0), Digit(0), Comma, NL>>,
         <<SeekPrefix, Digit(0), Comma, Digit(0), Space, NL>>,
         <<SeekPrefix>> \o TwoTo32 \o <<Comma, Digit(0), NL>>}

InitSession == InitWith(ReferenceCapacity) /\ DOMAIN trace = {1}

SessRecv ==
    /\ nrecv < MaxReceipts
    /\ \E chunk \in StreamChunks(nrecv + 1) : SrvRecv(1, chunk)
    /\ UNCHANGED <<main_vars, lcd_vars, redirect>>
SessClosed == (SrvClosed(1)) /\ UNCHANGED <<main_vars, lcd_vars, redirect>>
SessScan == (SrvScan(1)) /\ UNCHANGED <<main_vars, lcd_vars, redirect>>
SessLock == (SrvLock(1)) /\ UNCHANGED <<main_vars, lcd_vars, redirect>>
SessOpenFails == (SrvOpenFails(1)) /\ UNCHANGED <<main_vars, lcd_vars, redirect>>
SessAppend == (SrvAppend(1)) /\ UNCHANGED <<main_vars, lcd_vars, redirect>>
SessFread == (SrvFread(1)) /\ UNCHANGED <<main_vars, lcd_vars, redirect>>
SessSend == (SrvSend(1)) /\ UNCHANGED <<main_vars, lcd_vars, redirect>>
SessSendFails == (SrvSendFails(1)) /\ UNCHANGED <<main_vars, lcd_vars, redirect>>
SessUnlock == (SrvUnlock(1)) /\ UNCHANGED <<main_vars, lcd_vars, redirect>>
SessIoctl == (SrvIoctl(1)) /\ UNCHANGED <<main_vars, lcd_vars, redirect>>
SessReadFd == (SrvReadFd(1)) /\ UNCHANGED <<main_vars, lcd_vars, redirect>>
SessLockRest == (SrvLockRest(1)) /\ UNCHANGED <<main_vars, lcd_vars, redirect>>
SessAppendRest == (SrvAppendRest(1)) /\ UNCHANGED <<main_vars, lcd_vars, redirect>>

NextSession ==
    \/ SessRecv \/ SessClosed \/ SessScan \/ SessLock \/ SessOpenFails \/ SessAppend
    \/ SessFread \/ SessSend \/ SessSendFails \/ SessUnlock \/ SessIoctl \/ SessReadFd
    \/ SessLockRest \/ SessAppendRest

SpecSession == InitSession /\ [][NextSession]_vars

-----------------------------------------------------------------------------
(* The lifetime of the driver: writes, then aesd_cleanup_module *)

\* AESD_CIRCULAR_BUFFER_FOREACH of aesd_cleanup_module, from slot index on:
\* kfree of every buffptr that is not NULL; s = [dev, heap, bad]
RECURSIVE cleanup_foreach(_, _)
cleanup_foreach(s, index) ==
    IF index >= AESDCHAR_MAX_WRITE_OPERATIONS_SUPPORTED THEN s
    ELSE LET buffptr == s.dev.circular_buffer.entry[index].buffptr
         IN  cleanup_foreach(IF buffptr # NULL THEN kfree(s, buffptr) ELSE s, index + 1)

\* faulty variant: the pending buffer is forgotten
cleanup_temp_buffer_leak(s) == s

\* aesd_cleanup_module: if (aesd_device.temp_buffer) kfree(aesd_device.temp_buffer)
cleanup_temp_buffer(s) ==
    IF s.dev.temp_buffer # NULL THEN kfree(s, s.dev.temp_buffer) ELSE s

\* aesd_cleanup_module: the entries, then the pending buffer
aesd_cleanup_module(dev, h, bad) ==
    cleanup_temp_buffer(cleanup_foreach([dev |-> dev, heap |-> h, bad |-> bad], 0))

\* rmmod: no handler runs any more
Cleanup ==
    LET s == aesd_cleanup_module(aesd_device, heap, bad_kfree)
    IN  /\ last_op # "cleanup"
        /\ heap' = s.heap
        /\ bad_kfree' = s.bad
        /\ last_op' = "cleanup"
        /\ retval' = 0
        /\ ubuf' = <<>>
        /\ UNCHANGED <<aesd_device, f_pos, last_by, pc, loc, nspecial, History_vars>>

DoWriteLoaded ==
    /\ last_op # "cleanup"
    /\ DoWriteAny

DoCleanup ==
    /\ Cleanup
    /\ UNCHANGED <<max_write_operations, server_vars, redirect>>

NextLifetime == DoWriteLoaded \/ DoCleanup

SpecLifetime == Init /\ [][NextLifetime]_vars

-----------------------------------------------------------------------------
(* aesdsocket: main, the list of session threads, and shutdown *)

\* SpecShutdown: main's accept loop, signal_handler, the session threads' receive
\* loops (a received chunk is one operation under file_mutex) and the two
\* clean-up walks over the list of thread_data records.  A list position is an
\* index into thread_list_head; a thread is named by the connection it serves.

\* struct thread_data *new_thread = malloc(...) filled in for connection t
malloc_thread_data(t) ==
    [thread_data EXCEPT ![t].allocated = TRUE, ![t].thread_complete = FALSE]

\* free() of the thread_data record of t: the record must not go before a
\* thread that was started has been joined
free_thread_data(td, t) ==
    [td EXCEPT ![t].allocated = FALSE,
               ![t].freed_unjoined = @ \/ (td[t].pc # "none" /\ td[t].joins = 0)]

\* pthread_join of the thread of t has returned
pthread_join(td, t) == [td EXCEPT ![t].joins = @ + 1]

\* the list without its i-th record
Unlink(list, i) == SubSeq(list, 1, i - 1) \o SubSeq(list, i + 1, Len(list))

\* the connections no thread was created for
Unserved == {t \in Files : thread_data[t].pc = "none" /\ ~thread_data[t].allocated}

\* the threads of the process a signal can be delivered to: main and
\* the session threads that have not terminated
MainThread == 0
SignalTargets == {MainThread} \cup {t \in Files : thread_data[t].pc \notin {"none", "returned"}}

\* signal_handler runs in the thread the signal is delivered to; if that is main
\* and main is blocked in accept(), accept returns EINTR and main goes back to
\* the test of its loop
SignalHandler(target) ==
    /\ target \in SignalTargets
    /\ IntTermSignaled' = TRUE
    /\ main_thread' = IF target = MainThread /\ main_thread.pc = "accept"
                      THEN [main_thread EXCEPT !.pc = "while"]
                      ELSE main_thread
    /\ UNCHANGED <<thread_list_head, thread_data, file_mutex, nrecv>>

\* while (!IntTermSignaled) in main; after the loop, cleanup_all_threads starts
MainWhile ==
    /\ main_thread.pc = "while"
    /\ main_thread' = IF IntTermSignaled
                      THEN [main_thread EXCEPT !.pc = "join_all", !.thread_entry = 1]
                      ELSE [main_thread EXCEPT !.pc = "call_accept"]
    /\ UNCHANGED <<IntTermSignaled, thread_list_head, thread_data, file_mutex, nrecv>>

\* main calls accept() and blocks until a connection, an error or a signal
MainCallAccept ==
    /\ main_thread.pc = "call_accept"
    /\ main_thread' = [main_thread EXCEPT !.pc = "accept"]
    /\ UNCHANGED <<IntTermSignaled, thread_list_head, thread_data, file_mutex, nrecv>>

\* accept() returns a connection and malloc gives its thread_data, or malloc fails
MainAccept(t, malloc_fails) ==
    /\ main_thread.pc = "accept"
    /\ t \in Unserved
    /\ \A u \in Unserved : t <= u
    /\ IF malloc_fails
       THEN /\ main_thread' = [main_thread EXCEPT !.pc = "while"]
            /\ UNCHANGED thread_data
       ELSE /\ main_thread' = [main_thread EXCEPT !.pc = "create", !.new_thread = t]
            /\ thread_data' = malloc_thread_data(t)
    /\ UNCHANGED <<IntTermSignaled, thread_list_head, file_mutex, nrecv>>

\* accept() fails with an error other than EINTR
MainAcceptFails ==
    /\ main_thread.pc = "accept"
    /\ main_thread' = [main_thread EXCEPT !.pc = "while"]
    /\ UNCHANGED <<IntTermSignaled, thread_list_head, thread_data, file_mutex, nrecv>>

\* pthread_create starts handle_client, or fails and the record is freed
MainCreate(fails) ==
    /\ main_thread.pc = "create"
    /\ LET t == main_thread.new_thread
       IN  IF fails
           THEN /\ thread_data' = free_thread_data(thread_data, t)
                /\ main_thread' = [main_thread EXCEPT !.pc = "while", !.new_thread = NULL]
           ELSE /\ thread_data' = [thread_data EXCEPT ![t].pc = "while"]
                /\ main_thread' = [main_thread EXCEPT !.pc = "add"]
    /\ UNCHANGED <<IntTermSignaled, thread_list_head, file_mutex, nrecv>>

\* the new record becomes the head of the list; cleanup_completed_threads starts
MainAdd ==
    /\ main_thread.pc = "add"
    /\ thread_list_head' = <<main_thread.new_thread>> \o thread_list_head
    /\ main_thread' = [main_thread EXCEPT !.pc = "completed", !.new_thread = NULL,
                                          !.thread_entry = 1]
    /\ UNCHANGED <<IntTermSignaled, thread_data, file_mutex, nrecv>>

\* cleanup_completed_threads: the test of the walk and of thread_complete
MainCompleted ==
    /\ main_thread.pc = "completed"
    /\ LET i == main_thread.thread_entry
       IN  main_thread' =
               IF i > Len(thread_list_head)
               THEN [main_thread EXCEPT !.pc = "while", !.thread_entry = NULL]
               ELSE IF thread_data[thread_list_head[i]].thread_complete
                    THEN [main_thread EXCEPT !.pc = "join_completed"]
                    ELSE [main_thread EXCEPT !.thread_entry = i + 1]
    /\ UNCHANGED <<IntTermSignaled, thread_list_head, thread_data, file_mutex, nrecv>>

\* cleanup_completed_threads: pthread_join returns once the thread has, then the
\* record is unlinked and freed
MainJoinCompleted ==
    /\ main_thread.pc = "join_completed"
    /\ LET i == main_thread.thread_entry
           t == thread_list_head[i]
       IN  /\ thread_data[t].pc = "returned"
           /\ thread_data' = free_thread_data(pthread_join(thread_data, t), t)
           /\ thread_list_head' = Unlink(thread_list_head, i)
    /\ main_thread' = [main_thread EXCEPT !.pc = "completed"]
    /\ UNCHANGED <<IntTermSignaled, file_mutex, nrecv>>

\* cleanup_all_threads: pthread_join of the next record, which is then freed;
\* after the last one the list is emptied and main goes on to return
MainJoinAll ==
    /\ main_thread.pc = "join_all"
    /\ LET i == main_thread.thread_entry
       IN  IF i > Len(thread_list_head)
           THEN /\ thread_list_head' = <<>>
                /\ main_thread' = [main_thread EXCEPT !.pc = "done", !.thread_entry = NULL]
                /\ UNCHANGED thread_data
           ELSE LET t == thread_list_head[i]
                IN  /\ thread_data[t].pc = "returned"
                    /\ thread_data' = free_thread_data(pthread_join(thread_data, t), t)
                    /\ main_thread' = [main_thread EXCEPT !.thread_entry = i + 1]
                    /\ UNCHANGED thread_list_head
    /\ UNCHANGED <<IntTermSignaled, file_mutex, nrecv>>

\* handle_client: while (clientConnected && !IntTermSignaled), clientConnected true
ThreadWhile(t) ==
    /\ thread_data[t].pc = "while"
    /\ thread_data' = [thread_data EXCEPT ![t].pc = IF IntTermSignaled THEN "close"
                                                    ELSE "recv"]
    /\ UNCHANGED <<IntTermSignaled, thread_list_head, main_thread, file_mutex, nrecv>>

\* recv returns -1 with EAGAIN, EWOULDBLOCK or EINTR: the receive timed out
ThreadTimeout(t) ==
    /\ thread_data[t].pc = "recv"
    /\ thread_data' = [thread_data EXCEPT ![t].pc = "while"]
    /\ UNCHANGED <<IntTermSignaled, thread_list_head, main_thread, file_mutex, nrecv>>

\* recv returns bytes: the session has an operation on the store to do
ThreadRecv(t) ==
    /\ thread_data[t].pc = "recv"
    /\ nrecv < MaxPackets
    /\ nrecv' = nrecv + 1
    /\ thread_data' = [thread_data EXCEPT ![t].pc = "lock"]
    /\ UNCHANGED <<IntTermSignaled, thread_list_head, main_thread, file_mutex>>

\* recv returns 0 or another error: clientConnected = false ends the loop
ThreadClosed(t) ==
    /\ thread_data[t].pc = "recv"
    /\ thread_data' = [thread_data EXCEPT ![t].pc = "close"]
    /\ UNCHANGED <<IntTermSignaled, thread_list_head, main_thread, file_mutex, nrecv>>

\* pthread_mutex_lock(&file_mutex) for the bytes received
ThreadLock(t) ==
    /\ thread_data[t].pc = "lock"
    /\ pthread_mutex_is_unlocked(file_mutex)
    /\ file_mutex' = t
    /\ thread_data' = [thread_data EXCEPT ![t].pc = "unlock"]
    /\ UNCHANGED <<IntTermSignaled, thread_list_head, main_thread, nrecv>>

\* the operation is done (or failed): pthread_mutex_unlock(&file_mutex); a
\* failure also sets clientConnected = false
ThreadUnlock(t, failed) ==
    /\ thread_data[t].pc = "unlock"
    /\ file_mutex' = pthread_mutex_unlock(file_mutex)
    /\ thread_data' = [thread_data EXCEPT ![t].pc = IF failed THEN "close" ELSE "while"]
    /\ UNCHANGED <<IntTermSignaled, thread_list_head, main_thread, nrecv>>

\* close(clientFd); thread_info->thread_complete = true
ThreadComplete(t) ==
    /\ thread_data[t].pc = "close"
    /\ thread_data' = [thread_data EXCEPT ![t].pc = "return", ![t].thread_complete = TRUE]
    /\ UNCHANGED <<IntTermSignaled, thread_list_head, main_thread, file_mutex, nrecv>>

\* return NULL: the thread has terminated
ThreadReturn(t) ==
    /\ thread_data[t].pc = "return"
    /\ thread_data' = [thread_data EXCEPT ![t].pc = "returned"]
    /\ UNCHANGED <<IntTermSignaled, thread_list_head, main_thread, file_mutex, nrecv>>

\* what SpecShutdown leaves alone
shutdown_frame ==
    <<device_vars, driver_log, session, client, trace, lcd_vars, redirect>>

DoSignal == (\E target \in {MainThread} \cup Files : SignalHandler(target)) /\ UNCHANGED shutdown_frame
DoMainWhile == MainWhile /\ UNCHANGED shutdown_frame
DoMainCallAccept == MainCallAccept /\ UNCHANGED shutdown_frame
DoMainAccept == (\E t \in Files : \E malloc_fails \in BOOLEAN : MainAccept(t, malloc_fails)) /\ UNCHANGED shutdown_frame
DoMainAcceptFails == MainAcceptFails /\ UNCHANGED shutdown_frame
DoMainCreate == (\E fails \in BOOLEAN : MainCreate(fails)) /\ UNCHANGED shutdown_frame
DoMainAdd == MainAdd /\ UNCHANGED shutdown_frame
DoMainCompleted == MainCompleted /\ UNCHANGED shutdown_frame
DoMainJoinCompleted == MainJoinCompleted /\ UNCHANGED shutdown_frame
DoMainJoinAll == MainJoinAll /\ UNCHANGED shutdown_frame
DoThreadWhile == (\E t \in Files : ThreadWhile(t)) /\ UNCHANGED shutdown_frame
DoThreadTimeout == (\E t \in Files : ThreadTimeout(t)) /\ UNCHANGED shutdown_frame
DoThreadRecv == (\E t \in Files : ThreadRecv(t)) /\ UNCHANGED shutdown_frame
DoThreadClosed == (\E t \in Files : ThreadClosed(t)) /\ UNCHANGED shutdown_frame
DoThreadLock == (\E t \in Files : ThreadLock(t)) /\ UNCHANGED shutdown_frame
DoThreadUnlock == (\E t \in Files : \E failed \in BOOLEAN : ThreadUnlock(t, failed)) /\ UNCHANGED shutdown_frame
DoThreadComplete == (\E t \in Files : ThreadComplete(t)) /\ UNCHANGED shutdown_frame
DoThreadReturn == (\E t \in Files : ThreadReturn(t)) /\ UNCHANGED shutdown_frame

\* the steps main takes by itself (a connection and an accept error come from outside)
MainStep ==
    \/ DoMainWhile \/ DoMainCallAccept \/ DoMainCreate \/ DoMainAdd \/ DoMainCompleted
    \/ DoMainJoinCompleted \/ DoMainJoinAll

\* the steps session thread t takes by itself: the receive times out, and
\* everything after a receipt makes progress
ThreadStep(t) ==
    /\ \/ ThreadWhile(t) \/ ThreadTimeout(t) \/ ThreadLock(t)
       \/ (\E failed \in BOOLEAN : ThreadUnlock(t, failed))
       \/ ThreadComplete(t) \/ ThreadReturn(t)
    /\ UNCHANGED shutdown_frame

NextShutdown ==
    \/ DoSignal \/ DoMainWhile \/ DoMainCallAccept \/ DoMainAccept \/ DoMainAcceptFails \/ DoMainCreate
    \/ DoMainAdd \/ DoMainCompleted \/ DoMainJoinCompleted \/ DoMainJoinAll
    \/ DoThreadWhile \/ DoThreadTimeout \/ DoThreadRecv \/ DoThreadClosed
    \/ DoThreadLock \/ DoThreadUnlock \/ DoThreadComplete \/ DoThreadReturn

SpecShutdown ==
    /\ Init
    /\ [][NextShutdown]_vars
    /\ WF_vars(MainStep)
    /\ \A t \in Files : WF_vars(ThreadStep(t))

-----------------------------------------------------------------------------
(* aesdsocket built for the LCD device: the bounded receive buffer *)

\* SpecOverflow: handle_client of the build with USE_LCD_DEVICE, one connection.
\* The receive buffer of the model holds LcdBufferSize bytes where the build's
\* holds BUFFER_SIZE; packets are text for the display, not LCD commands.
LcdBufferSize == 3

\* what the k-th receipt may deliver when the buffer has the given free space
LcdChunks(k, space) ==
    LET t == 10 * k + 1
    IN  {chunk \in {<<t>>, <<NL>>, <<t, t>>, <<t, NL>>, <<t, t, t>>, <<t, NL, t>>} :
             Len(chunk) <= space}

\* the test of the loop and the check for buffer space before recv
LcdWhile ==
    /\ lcd_session.pc = "while"
    /\ lcd_session' =
           IF Len(lcd_session.receiveBuffer) >= LcdBufferSize
           THEN [lcd_session EXCEPT !.pc = "flush_lock"]
           ELSE [lcd_session EXCEPT !.pc = "recv",
                                    !.space = LcdBufferSize - Len(lcd_session.receiveBuffer)]
    /\ UNCHANGED <<lcd_log, file_mutex, nrecv>>

\* pthread_mutex_lock(&file_mutex) before the flush
LcdFlushLock ==
    /\ lcd_session.pc = "flush_lock"
    /\ pthread_mutex_is_unlocked(file_mutex)
    /\ file_mutex' = 1
    /\ lcd_session' = [lcd_session EXCEPT !.pc = "flush"]
    /\ UNCHANGED <<lcd_log, nrecv>>

\* fopen(PACKET_FILE, "a"); if it gave a stream, fwrite of the whole buffer and
\* fclose; if it did not, nothing is written
LcdFlush(fopen_fails) ==
    /\ lcd_session.pc = "flush"
    /\ lcd_log' = IF fopen_fails
                  THEN [lcd_log EXCEPT !.dropped = @ \o lcd_session.receiveBuffer]
                  ELSE [lcd_log EXCEPT !.written = Append(@, lcd_session.receiveBuffer)]
    /\ lcd_session' = [lcd_session EXCEPT !.pc = "flush_unlock"]
    /\ UNCHANGED <<file_mutex, nrecv>>

\* pthread_mutex_unlock(&file_mutex); receiveBufferLen = 0
LcdFlushUnlock ==
    /\ lcd_session.pc = "flush_unlock"
    /\ file_mutex' = pthread_mutex_unlock(file_mutex)
    /\ lcd_session' = [lcd_session EXCEPT !.pc = "recv", !.receiveBuffer = <<>>,
                                          !.space = LcdBufferSize]
    /\ UNCHANGED <<lcd_log, nrecv>>

\* recv(clientFd, receiveBuffer + receiveBufferLen, BUFFER_SIZE - receiveBufferLen, 0)
\* returns the chunk, which is appended to the buffer
LcdRecv(chunk) ==
    /\ lcd_session.pc = "recv"
    /\ nrecv < MaxPackets
    /\ nrecv' = nrecv + 1
    /\ lcd_session' = [lcd_session EXCEPT !.pc = "scan", !.receiveBuffer = @ \o chunk]
    /\ lcd_log' = [lcd_log EXCEPT !.received = @ \o chunk]
    /\ UNCHANGED file_mutex

\* recv times out or is interrupted: continue
LcdTimeout ==
    /\ lcd_session.pc = "recv"
    /\ lcd_session' = [lcd_session EXCEPT !.pc = "while"]
    /\ UNCHANGED <<lcd_log, file_mutex, nrecv>>

\* recv returns 0 or fails: the connection is closed
LcdClosed ==
    /\ lcd_session.pc = "recv"
    /\ lcd_session' = [lcd_session EXCEPT !.pc = "closed"]
    /\ UNCHANGED <<lcd_log, file_mutex, nrecv>>

\* the test of the newline loop
LcdScan ==
    /\ lcd_session.pc = "scan"
    /\ lcd_session' = [lcd_session EXCEPT
           !.pc = IF memchr(lcd_session.receiveBuffer) = 0 THEN "while" ELSE "lock"]
    /\ UNCHANGED <<lcd_log, file_mutex, nrecv>>

\* pthread_mutex_lock(&file_mutex) for the packet found
LcdLock ==
    /\ lcd_session.pc = "lock"
    /\ pthread_mutex_is_unlocked(file_mutex)
    /\ file_mutex' = 1
    /\ lcd_session' = [lcd_session EXCEPT !.pc = "packet"]
    /\ UNCHANGED <<lcd_log, nrecv>>

\* the packet without its newline is written to the device, the mutex is
\* released and the packet removed from the buffer; if open fails the mutex is
\* released and the connection closed
LcdPacket(open_fails) ==
    /\ lcd_session.pc = "packet"
    /\ file_mutex' = pthread_mutex_unlock(file_mutex)
    /\ LET packetLen == memchr(lcd_session.receiveBuffer)
           text == SubSeq(lcd_session.receiveBuffer, 1, packetLen - 1)
       IN  IF open_fails
           THEN /\ lcd_session' = [lcd_session EXCEPT !.pc = "closed"]
                /\ UNCHANGED lcd_log
           ELSE /\ lcd_session' = [lcd_session EXCEPT
                        !.pc = "scan",
                        !.receiveBuffer = remove_packet(lcd_session.receiveBuffer, packetLen)]
                /\ lcd_log' = IF text = <<>> THEN lcd_log
                              ELSE [lcd_log EXCEPT !.written = Append(@, text)]
    /\ UNCHANGED nrecv

\* what SpecOverflow leaves alone
overflow_frame ==
    <<device_vars, driver_log, session, client, trace, main_vars, redirect>>

DoLcdWhile == LcdWhile /\ UNCHANGED overflow_frame
DoLcdFlushLock == LcdFlushLock /\ UNCHANGED overflow_frame
DoLcdFlush == (\E fopen_fails \in BOOLEAN : LcdFlush(fopen_fails)) /\ UNCHANGED overflow_frame
DoLcdFlushUnlock == LcdFlushUnlock /\ UNCHANGED overflow_frame
DoLcdRecv == (\E chunk \in LcdChunks(nrecv + 1, lcd_session.space) : LcdRecv(chunk)) /\ UNCHANGED overflow_frame
DoLcdTimeout == LcdTimeout /\ UNCHANGED overflow_frame
DoLcdClosed == LcdClosed /\ UNCHANGED overflow_frame
DoLcdScan == LcdScan /\ UNCHANGED overflow_frame
DoLcdLock == LcdLock /\ UNCHANGED overflow_frame
DoLcdPacket == (\E open_fails \in BOOLEAN : LcdPacket(open_fails)) /\ UNCHANGED overflow_frame

NextOverflow ==
    \/ DoLcdWhile \/ DoLcdFlushLock \/ DoLcdFlush \/ DoLcdFlushUnlock \/ DoLcdRecv
    \/ DoLcdTimeout \/ DoLcdClosed \/ DoLcdScan \/ DoLcdLock \/ DoLcdPacket

SpecOverflow == Init /\ [][NextOverflow]_vars

-----------------------------------------------------------------------------
(* systemcalls.c: do_exec_redirect *)

\* SpecRedirect: a process calls do_exec_redirect up to MaxCalls times.
\* redirect.open_fds are the descriptors the caller has open on output files,
\* redirect.child_fds those of the child it forked (STDOUT_FILENO among them
\* once dup2 has redirected it).
MaxCalls == 4

STDOUT_FILENO == 1

\* the descriptors open() can return to the caller: the lowest one not in use
FirstFd == 3
Fds == FirstFd..(FirstFd + MaxCalls)
LowestFree(open_fds) == CHOOSE fd \in Fds \ open_fds : \A other \in Fds \ open_fds : fd <= other

\* the caller enters do_exec_redirect
RedirectCall ==
    /\ redirect.pc = "idle"
    /\ redirect.calls < MaxCalls
    /\ redirect' = [redirect EXCEPT !.pc = "open", !.calls = @ + 1, !.result = "none", !.fd = 0]

\* open(outputfile, O_WRONLY | O_CREAT | O_TRUNC); return false if it fails
RedirectOpen(fails) ==
    /\ redirect.pc = "open"
    /\ redirect' = IF fails
                   THEN [redirect EXCEPT !.pc = "idle", !.result = "false", !.fd = 0 - 1]
                   ELSE LET fd == LowestFree(redirect.open_fds)
                        IN  [redirect EXCEPT !.pc = "fork", !.fd = fd,
                                             !.open_fds = @ \cup {fd}]

\* fork(): on failure return false; on success the child has the caller's descriptors
RedirectFork(fails) ==
    /\ redirect.pc = "fork"
    /\ redirect' = IF fails
                   THEN [redirect EXCEPT !.pc = "idle", !.result = "false"]
                   ELSE [redirect EXCEPT !.pc = "waitpid", !.child = "dup2",
                                         !.child_fds = redirect.open_fds]

\* child: dup2(fd, STDOUT_FILENO); on failure close(fd) and exit(EXIT_FAILURE)
ChildDup2(fails) ==
    /\ redirect.child = "dup2"
    /\ redirect' = IF fails
                   THEN [redirect EXCEPT !.child = "exit_failure",
                                         !.child_fds = @ \ {redirect.fd}]
                   ELSE [redirect EXCEPT !.child = "close",
                                         !.child_fds = @ \cup {STDOUT_FILENO}]

\* child: close(fd) before execv
ChildClose ==
    /\ redirect.child = "close"
    /\ redirect' = [redirect EXCEPT !.child = "execv", !.child_fds = @ \ {redirect.fd}]

\* child: execv(command[0], command); if it returns, exit(EXIT_FAILURE)
ChildExecv(fails) ==
    /\ redirect.child = "execv"
    /\ redirect' = [redirect EXCEPT !.child = IF fails THEN "exit_failure" ELSE "command"]

\* the command ends: exit status 0, another exit status, or a signal
ChildEnds(how) ==
    /\ redirect.child = "command"
    /\ redirect' = [redirect EXCEPT !.child = how]

\* waitpid(pid, &wstatus, 0) returns the child; true only if it exited with status 0
RedirectWaitpid ==
    /\ redirect.pc = "waitpid"
    /\ redirect.child \in {"exit_success", "exit_failure", "killed"}
    /\ redirect' = [redirect EXCEPT
           !.pc = "idle",
           !.result = IF redirect.child = "exit_success" THEN "true" ELSE "false",
           !.child = "none", !.child_fds = {}]

\* waitpid fails: return false; the caller no longer follows the child
RedirectWaitpidFails ==
    /\ redirect.pc = "waitpid"
    /\ redirect' = [redirect EXCEPT !.pc = "idle", !.result = "false",
                                    !.child = "none", !.child_fds = {}]

\* what SpecRedirect leaves alone
redirect_frame == <<device_vars, driver_log, server_vars>>

DoRedirectCall == RedirectCall /\ UNCHANGED redirect_frame
DoRedirectOpen == (\E fails \in BOOLEAN : RedirectOpen(fails)) /\ UNCHANGED redirect_frame
DoRedirectFork == (\E fails \in BOOLEAN : RedirectFork(fails)) /\ UNCHANGED redirect_frame
DoChildDup2 == (\E fails \in BOOLEAN : ChildDup2(fails)) /\ UNCHANGED redirect_frame
DoChildClose == ChildClose /\ UNCHANGED redirect_frame
DoChildExecv == (\E fails \in BOOLEAN : ChildExecv(fails)) /\ UNCHANGED redirect_frame
DoChildEnds == (\E how \in {"exit_success", "exit_failure", "killed"} : ChildEnds(how)) /\ UNCHANGED redirect_frame
DoRedirectWaitpid == RedirectWaitpid /\ UNCHANGED redirect_frame
DoRedirectWaitpidFails == RedirectWaitpidFails /\ UNCHANGED redirect_frame

NextRedirect ==
    \/ DoRedirectCall \/ DoRedirectOpen \/ DoRedirectFork \/ DoChildDup2 \/ DoChildClose
    \/ DoChildExecv \/ DoChildEnds \/ DoRedirectWaitpid \/ DoRedirectWaitpidFails

SpecRedirect == Init /\ [][NextRedirect]_vars

-----------------------------------------------------------------------------
(* Both locks: direct callers of the driver, then a session of the server *)

\* a connection has been served: handle_client has left its first recv
ServerStarted == nrecv > 0 \/ \E c \in Files : session[c] # NoSession

\* the device as aesd_init_module left it, no handler running
DriverUnused ==
    /\ ncommits = 0 /\ pending = <<>>
    /\ aesd_device.temp_buffer = NULL /\ aesd_device.temp_buffer_size = 0
    /\ \A t \in Files : pc[t] = "idle"

\* SpecLocks: the handlers of the driver are entered by two direct callers,
\* step by step, before the first connection; the session of the server runs
\* over a device that holds nothing.  (The two do not interleave here: a session
\* enters the driver only through the same handlers.)
NextLocks ==
    \/ (IF ServerStarted THEN TRUE ELSE DriverUnused) /\ NextSession
    \/ ~ServerStarted /\ NextConc

SpecLocks == InitSession /\ [][NextLocks]_vars

-----------------------------------------------------------------------------
(* The ring as the claims describe it *)

Capacity == AESDCHAR_MAX_WRITE_OPERATIONS_SUPPORTED

Min(a, b) == IF a <= b THEN a ELSE b

Bytes(seq) == {seq[i] : i \in 1..Len(seq)}

\* number of logical entries: capacity when full, (in_offs - out_offs) mod capacity otherwise
EntryCount(buffer) ==
    IF buffer.full THEN Capacity
    ELSE (buffer.in_offs - buffer.out_offs + Capacity) % Capacity

\* the slot of the i-th logical entry, walking from out_offs towards in_offs
LogicalSlot(buffer, i) == (buffer.out_offs + i - 1) % Capacity

\* the slots of the logical entries, oldest first
LogicalSlots(buffer) == [i \in 1..EntryCount(buffer) |-> LogicalSlot(buffer, i)]

\* the bytes of the logical entries, oldest first
LogicalEntries(buffer, h) ==
    [i \in 1..EntryCount(buffer) |->
        LET e == buffer.entry[LogicalSlot(buffer, i)]
        IN  Peek(h, e.buffptr, 0, e.size)]

RECURSIVE SumSizes(_, _)
\* sum of the sizes of the first n logical entries
SumSizes(buffer, n) ==
    IF n = 0 THEN 0
    ELSE SumSizes(buffer, n - 1) + buffer.entry[LogicalSlot(buffer, n)].size

TotalSize(buffer) == SumSizes(buffer, EntryCount(buffer))

\* the global offset at which each logical entry ends (0 for none)
Ends(buffer) == [n \in 0..EntryCount(buffer) |-> SumSizes(buffer, n)]

Ring == aesd_device.circular_buffer

-----------------------------------------------------------------------------
(* C1: after n commits the ring holds min(n, capacity) entries, never more than
   capacity, and walked from out_offs towards in_offs they are the most recent
   min(n, capacity) committed records in commit order. *)
C1_RetainsMostRecent ==
    /\ EntryCount(Ring) <= Capacity
    /\ EntryCount(Ring) = Min(ncommits, Capacity)
    /\ LogicalEntries(Ring, heap) = LastN(committed, Min(ncommits, Capacity))

C1_Witness ==
    /\ ncommits >= Capacity + 2
    /\ last_op = "write" /\ retval > 0
    /\ nspecial > 0

(* C2: in_offs and out_offs stay inside [0, capacity); they are equal exactly when
   the ring is empty (full false) or full (full true); full implies equality;
   and full, once true, stays true. *)
C2_IndexState ==
    /\ Ring.in_offs \in Slots /\ Ring.out_offs \in Slots
    /\ Ring.full => Ring.in_offs = Ring.out_offs
    /\ Ring.full <=> ncommits >= Capacity
    /\ (Ring.in_offs = Ring.out_offs) <=> (ncommits = 0 \/ ncommits >= Capacity)

C2_IndicesAndFullFlag == [](C2_IndexState) /\ [][Ring.full => Ring.full']_vars

C2_Witness ==
    /\ Ring.full /\ Ring.in_offs = Ring.out_offs /\ Ring.in_offs = 2
    /\ ncommits = Capacity + 2

(* C7: a commit splits the pending bytes at every terminator: every ring entry ends
   with the terminator and holds no other, and the bytes after the last terminator
   of a write stay pending (so no pending byte is a terminator and no accepted byte
   after a terminator is inside an entry). *)
C7_SplitsAtEveryTerminator ==
    /\ \A i \in 1..EntryCount(Ring) :
          LET e == LogicalEntries(Ring, heap)[i]
          IN  /\ Len(e) >= 1
              /\ e[Len(e)] = NL
              /\ \A k \in 1..(Len(e) - 1) : e[k] # NL
    /\ NL \notin Bytes(Peek(heap, aesd_device.temp_buffer, 0, aesd_device.temp_buffer_size))

-----------------------------------------------------------------------------
(* The lock and the storage, as the claims describe them *)

\* the committed records the ring must hold, oldest first
Retained == LastN(committed, Min(ncommits, Capacity))

RECURSIVE Flatten(_)
\* the bytes of a sequence of records, in order
Flatten(records) ==
    IF records = <<>> THEN <<>> ELSE Head(records) \o Flatten(Tail(records))

\* the threads inside a handler
Inside == {t \in Files : pc[t] # "idle"}

\* the storage the device refers to: the logical entries and the pending buffer
SlotPtrs == {Ring.entry[LogicalSlot(Ring, i)].buffptr : i \in 1..EntryCount(Ring)}

Owned == (SlotPtrs \cup {aesd_device.temp_buffer}) \ {NULL}

\* what a handler computes from the device now equals what the history says
SeesHistory ==
    LET flat == Flatten(Retained)
    IN  /\ LogicalEntries(Ring, heap) = Retained
        /\ Peek(heap, aesd_device.temp_buffer, 0, aesd_device.temp_buffer_size) = pending
        /\ aesd_get_total_size(aesd_device) = Len(flat)
        /\ \A pos \in 0..Len(flat), count \in 1..MaxCount :
              LET r == read_body(aesd_device, heap, pos, count, "none")
              IN  /\ r.ret = Len(r.ubuf)
                  /\ (pos < Len(flat)) => r.ret >= 1
                  /\ (pos = Len(flat)) => r.ret = 0
                  /\ \A k \in 1..r.ret : r.ubuf[k] = flat[pos + k]
        /\ \A c \in 1..Len(Retained) : \A o \in 0..(Len(Retained[c]) - 1) :
              ioctl_body(aesd_device, 0, c - 1, o).ret
                  = Len(Flatten(SubSeq(Retained, 1, c - 1))) + o

(* C3: commits (with their eviction) and reads are atomic under the device lock:
   at most one thread is inside a handler and it holds the lock; whenever a read,
   an llseek or a seek-to-command holds the lock, and whenever the lock is free,
   the ring, the total size and the pending bytes are exactly those of the
   history of granted commits, so no half-added entry, no half-advanced index and
   no partly evicted ring is ever seen and every earlier commit is seen. *)
C3_AtomicUnderLock ==
    /\ Cardinality(Inside) <= 1
    /\ \A t \in Inside : aesd_device.lock = t
    /\ aesd_device.lock # NULL => aesd_device.lock \in Inside
    /\ (\/ aesd_device.lock = NULL
        \/ \E t \in Files : pc[t] \in {"r_body", "s_body", "i_body"}) => SeesHistory

C3_Witness ==
    /\ \E t \in Files : pc[t] = "r_body" /\ aesd_device.lock = t
    /\ ncommits >= Capacity + 1
    /\ committers = Files
    /\ pending # <<>>

(* C4: commits of concurrent threads are ordered by lock acquisition: once every
   thread has returned and at least capacity records were committed, the ring
   holds exactly capacity entries, they are the last capacity records in the
   order the lock was granted, and their sequence numbers are consecutive up to
   the number of commits. *)
C4_CommitsLinearized ==
    (Inside = {} /\ ncommits >= Capacity) =>
        /\ EntryCount(Ring) = Capacity
        /\ LogicalEntries(Ring, heap) = LastN(committed, Capacity)
        /\ \A i \in 1..Capacity :
              LET e == LogicalEntries(Ring, heap)[i]
              IN  /\ Len(e) >= 2
                  /\ e[Len(e)] = NL
                  /\ e[Len(e) - 1] = ncommits - Capacity + i

C4_Witness ==
    /\ Inside = {}
    /\ ncommits = Capacity + 2
    /\ committers = Files
    /\ nspecial > 0

(* C5: the storage of an evicted entry is freed exactly once, inside the critical
   section that evicts it and only after the new entry is stored and the indices
   are updated; no logical slot refers to freed storage, no two refer to the same
   storage, nothing is freed twice, and when the lock is released the live storage
   is exactly what the ring and the pending buffer refer to. *)
C5_EvictedFreedOnce ==
    /\ ~bad_kfree
    /\ \A p \in SlotPtrs : p # NULL /\ heap[p].live
    /\ Cardinality(SlotPtrs) = EntryCount(Ring)
    /\ \A t \in Files :
          LET old == loc[t].old_entry_ptr
          IN  old # NULL =>
                /\ pc[t] \in {"w_advance_out", "w_advance_in", "w_free", "w_reset", "w_return"}
                /\ old \notin SlotPtrs
                /\ heap[old].live <=> pc[t] \in {"w_advance_out", "w_advance_in", "w_free"}
    /\ aesd_device.lock = NULL => {p \in Ptrs : heap[p].live} = Owned

C5_Witness ==
    /\ \E t \in Files : /\ pc[t] = "w_reset"
                        /\ loc[t].old_entry_ptr # NULL
                        /\ ~heap[loc[t].old_entry_ptr].live
    /\ ncommits >= Capacity + 2
    /\ Ring.full

-----------------------------------------------------------------------------
(* Offsets and seeks, as the claims describe them *)

\* the logical index (1-based) of the first entry whose byte range, given the ends
\* of the entries, holds global offset g; 0 if none
EntryIndexIn(ends, g) ==
    LET holds(i) == ends[i - 1] <= g /\ g < ends[i]
        n == Cardinality(DOMAIN ends) - 1
    IN  IF \E i \in 1..n : holds(i)
        THEN CHOOSE i \in 1..n : holds(i) /\ \A j \in 1..(i - 1) : ~holds(j)
        ELSE 0

EntryIndexAt(buffer, g) == EntryIndexIn(Ends(buffer), g)

Positions == 0..(TotalSize(Ring) + MaxCount)

(* C6: once capacity + 1 records are committed, no read at any file position
   returns a byte of the first committed record (nor a byte of freed storage), and
   every position a seek-to-command or an llseek can set resolves, if at all, into
   a retained entry. *)
C6_FirstRecordUnreachable ==
    ncommits >= Capacity + 1 =>
        /\ \A pos \in Positions, count \in 1..MaxCount :
              LET r == read_body(aesd_device, heap, pos, count, "none")
              IN  Bytes(r.ubuf) \cap (Bytes(first_record) \ {NL}) = {}
                  /\ Poison \notin Bytes(r.ubuf)
        /\ last_op = "read" =>
              Bytes(ubuf) \cap ((Bytes(first_record) \ {NL}) \cup {Poison}) = {}
        /\ \A f \in SeqFiles :
              /\ \A in \in SeekToInputs(Ring) :
                    ioctl_body(aesd_device, f_pos[f], in[1], in[2]).f_pos \in Positions
              /\ \A in \in SeekInputs(aesd_device) :
                    llseek_body(aesd_device, f_pos[f], in[1], in[2]).f_pos \in Positions
        /\ \A p \in Ptrs : heap[p].live => Bytes(heap[p].data) \cap (Bytes(first_record) \ {NL}) = {}

C6_Witness ==
    /\ ncommits >= Capacity + 1
    /\ last_op = "read" /\ retval > 0
    /\ f_pos[1] = retval
    /\ Bytes(first_record) # {NL}

(* C8: for a non-empty ring and an offset below the total size, the entry found is
   the first one, in logical order, whose cumulative byte range holds the offset,
   and the byte offset returned is the offset minus the sizes before that entry;
   for an empty ring or an offset at or past the total size the result is NULL and
   the output is not set. *)
C8_FindEntryOffset ==
    LET ends == Ends(Ring)
        total == ends[EntryCount(Ring)]
    IN  \A g \in 0..(total + MaxCount) :
            LET r == aesd_circular_buffer_find_entry_offset_for_fpos(Ring, g)
                i == EntryIndexIn(ends, g)
            IN  IF EntryCount(Ring) > 0 /\ g < total
                THEN /\ i >= 1
                     /\ r.entry = LogicalSlot(Ring, i)
                     /\ r.entry_offset_byte_rtn = g - ends[i - 1]
                ELSE r = NotFound

C8_Witness ==
    /\ last_op = "read" /\ retval > 0
    /\ Ring.full /\ Ring.out_offs > 0
    /\ EntryIndexAt(Ring, f_pos[1] - retval) > Capacity - Ring.out_offs
    /\ nspecial > 0

(* C9: a seek-to-command with write_cmd below the entry count and write_cmd_offset
   below the size of that entry sets the file position to the sizes of the logical
   entries before write_cmd plus write_cmd_offset, and the ioctl returns that
   position; the entry count is capacity when full, (in_offs - out_offs) mod
   capacity otherwise. *)
C9_SeekToCommandPosition ==
    /\ adjust_count(Ring) = EntryCount(Ring)
    /\ LET ends == Ends(Ring)
       IN  \A f \in SeqFiles, c \in 0..(Capacity - 1) :
              c < EntryCount(Ring) =>
                  \A o \in 0..(Ring.entry[LogicalSlot(Ring, c + 1)].size - 1) :
                      LET r == ioctl_body(aesd_device, f_pos[f], c, o)
                      IN  /\ r.f_pos = ends[c] + o
                          /\ r.ret = r.f_pos
    /\ (last_op = "ioctl" /\ retval >= 0) =>
          /\ f_pos[1] = retval
          /\ EntryIndexAt(Ring, retval) >= 1

C9_Witness ==
    /\ last_op = "ioctl" /\ retval > 0
    /\ Ring.full /\ Ring.out_offs > 0
    /\ EntryIndexAt(Ring, retval) > Capacity - Ring.out_offs
    /\ retval > SumSizes(Ring, EntryIndexAt(Ring, retval) - 1)
    /\ nspecial > 0

(* C10: seek-to-command fails with -EINVAL exactly when the ring is empty, or
   write_cmd is at or past the number of logical entries, or write_cmd_offset is at
   or past the size of the addressed entry; a failed seek leaves the file position,
   the ring and the pending buffer as they were. *)
C10_FailsExactlyWhen ==
    \A f \in SeqFiles, c \in 0..(Capacity + 1), o \in 0..(MaxEntrySize(Ring) + 1) :
        LET r == ioctl_body(aesd_device, f_pos[f], c, o)
            out_of_range ==
                \/ EntryCount(Ring) = 0
                \/ c >= EntryCount(Ring)
                \/ o >= Ring.entry[(Ring.out_offs + c) % Capacity].size
        IN  /\ (r.ret = 0 - EINVAL) <=> out_of_range
            /\ out_of_range => r.f_pos = f_pos[f]
            /\ ~out_of_range => r.ret >= 0

C10_FailedSeekChangesNothing ==
    (last_op' = "ioctl" /\ retval' < 0) =>
        UNCHANGED <<aesd_device, heap, f_pos, committed, ncommits, pending>>

C10_SeekOutOfRange == [](C10_FailsExactlyWhen) /\ [][C10_FailedSeekChangesNothing]_vars

C10_Witness ==
    /\ last_op = "ioctl" /\ retval = 0 - EINVAL
    /\ EntryCount(Ring) = 2
    /\ f_pos[1] = 1
    /\ aesd_device.temp_buffer_size > 0

-----------------------------------------------------------------------------
(* Reads, as the claims describe them *)

(* C11: offset resolution and command resolution agree: for every logical index
   i below the entry count, the position g that seek-to-command (i, 0) sets is one
   that find_entry_offset_for_fpos resolves to the entry at logical index i with
   local offset 0, and g - 1, when g > 0, resolves into the entry before it. *)
C11_ResolutionsAgree ==
    \A f \in SeqFiles, c \in 0..(Capacity - 1) :
        c < EntryCount(Ring) =>
            LET g == ioctl_body(aesd_device, f_pos[f], c, 0).f_pos
                at == aesd_circular_buffer_find_entry_offset_for_fpos(Ring, g)
                before == aesd_circular_buffer_find_entry_offset_for_fpos(Ring, g - 1)
            IN  /\ at.entry = LogicalSlot(Ring, c + 1)
                /\ at.entry_offset_byte_rtn = 0
                /\ g > 0 => /\ c >= 1
                            /\ before.entry = LogicalSlot(Ring, c)
                            /\ before.entry_offset_byte_rtn = Ring.entry[before.entry].size - 1

C11_Witness ==
    /\ last_op = "ioctl" /\ retval > 0 /\ f_pos[1] = retval
    /\ Ring.full /\ Ring.out_offs > 0
    /\ LET at == aesd_circular_buffer_find_entry_offset_for_fpos(Ring, retval)
       IN  at.entry_offset_byte_rtn = 0 /\ at.entry < Ring.out_offs
    /\ nspecial > 1

\* where the k-th retained record starts in the byte stream
RecordStart(k) == Len(Flatten(SubSeq(Retained, 1, k - 1)))

(* C12: round trip: for every committed record that no later commit has evicted,
   a read at the record's starting offset with a count of at least its length
   returns exactly the bytes of the record. *)
C12_RoundTrip ==
    \A k \in 1..Len(Retained) :
        \A count \in Len(Retained[k])..(Len(Retained[k]) + MaxCount) :
            LET r == read_body(aesd_device, heap, RecordStart(k), count, "none")
            IN  /\ r.ret = Len(Retained[k])
                /\ r.ubuf = Retained[k]

C12_Witness ==
    /\ last_op = "read" /\ retval = 2
    /\ ncommits >= Capacity + 1
    /\ \E k \in 1..Len(Retained) : /\ Retained[k] = ubuf
                                   /\ RecordStart(k) = f_pos[1] - retval
                                   /\ k > 1
    /\ \E k \in 1..Len(Retained) : Len(Retained[k]) = 3

(* C13: with capacity 2, after committing "aa\n" then "bb\n" the total size is 6,
   seek (0,0) gives 0 and seek (1,0) gives 3; after also committing "cc\n", which
   evicts "aa\n", the total size is still 6, seek (0,0) gives 0 and resolves into
   "bb\n", a read of 10 bytes at 0 returns "bb\n" and at 3 returns "cc\n". *)
C13_TwoSlotScenario ==
    /\ Capacity = 2
    /\ ncommits = 2 =>
          /\ aesd_get_total_size(aesd_device) = 6
          /\ llseek_body(aesd_device, 0, 0, SEEK_END).ret = 6
          /\ ioctl_body(aesd_device, f_pos[1], 0, 0).ret = 0
          /\ ioctl_body(aesd_device, f_pos[1], 1, 0).ret = 3
    /\ ncommits = 3 =>
          /\ aesd_get_total_size(aesd_device) = 6
          /\ ioctl_body(aesd_device, f_pos[1], 0, 0).ret = 0
          /\ LET at == aesd_circular_buffer_find_entry_offset_for_fpos(Ring, 0)
             IN  /\ at.entry = Ring.out_offs
                 /\ Peek(heap, Ring.entry[at.entry].buffptr, 0, 3) = <<2, 2, NL>>
          /\ read_body(aesd_device, heap, 0, ScenarioCount, "none").ubuf = <<2, 2, NL>>
          /\ read_body(aesd_device, heap, 3, ScenarioCount, "none").ubuf = <<3, 3, NL>>
    /\ (ncommits = 3 /\ last_op = "read" /\ retval = 3) =>
          ubuf = IF f_pos[1] = 3 THEN <<2, 2, NL>> ELSE <<3, 3, NL>>

C13_Witness ==
    /\ Capacity = 2
    /\ ncommits = 3 /\ committed = <<<<1, 1, NL>>, <<2, 2, NL>>, <<3, 3, NL>>>>
    /\ last_op = "read" /\ retval = 3 /\ f_pos[1] = 6
    /\ ubuf = <<3, 3, NL>>

(* C14: one aesd_read at a position inside an entry returns exactly
   min(count, entry size - local offset) bytes, all of that one entry from the
   local offset on, and advances the file position by the number of bytes
   returned; bytes of two entries never come back from one call. *)
C14_ReadWithinOneEntry ==
    LET ends == Ends(Ring)
        total == ends[EntryCount(Ring)]
        entries == LogicalEntries(Ring, heap)
    IN  \A pos \in 0..(total - 1), count \in 1..(MaxCount + 2) :
            LET r == read_body(aesd_device, heap, pos, count, "none")
                i == EntryIndexIn(ends, pos)
                local == pos - ends[i - 1]
                n == Min(count, Len(entries[i]) - local)
            IN  /\ r.ret = n
                /\ r.ubuf = SubSeq(entries[i], local + 1, local + n)
                /\ r.f_pos = pos + n

C14_ReadStep ==
    (last_op' = "read" /\ retval' > 0) =>
        /\ f_pos'[1] = f_pos[1] + retval'
        /\ Len(ubuf') = retval'
        /\ EntryIndexAt(Ring, f_pos[1]) = EntryIndexAt(Ring, f_pos'[1] - 1)
        /\ UNCHANGED <<aesd_device, heap>>

C14_SingleEntryRead == [](C14_ReadWithinOneEntry) /\ [][C14_ReadStep]_vars

C14_Witness ==
    /\ last_op = "read" /\ retval = 1
    /\ EntryIndexAt(Ring, f_pos[1] - 1) >= 1
    /\ EntryIndexAt(Ring, f_pos[1]) = EntryIndexAt(Ring, f_pos[1] - 1) + 1
    /\ Ring.entry[LogicalSlot(Ring, EntryIndexAt(Ring, f_pos[1] - 1))].size = 3
    /\ Ring.full

(* C15: a read at a position that does not resolve (empty ring, or a position at
   or past the total size) returns 0, which is not an error, and leaves the file
   position, the ring and the pending buffer as they were. *)
C15_EofResult ==
    \A pos \in TotalSize(Ring)..(TotalSize(Ring) + MaxCount), count \in 0..(MaxCount + 1) :
        LET r == read_body(aesd_device, heap, pos, count, "none")
        IN  r.ret = 0 /\ r.f_pos = pos /\ r.ubuf = <<>>

C15_EofStep ==
    (last_op' = "read" /\ f_pos[1] >= TotalSize(Ring)) =>
        /\ retval' = 0
        /\ UNCHANGED <<aesd_device, heap, f_pos, pending, committed>>

C15_ReadAtEof == [](C15_EofResult) /\ [][C15_EofStep]_vars

C15_Witness ==
    /\ last_op = "read" /\ retval = 0
    /\ f_pos[1] = TotalSize(Ring) /\ f_pos[1] > 0
    /\ aesd_device.temp_buffer_size > 0
    /\ Len(ubuf) = 0 /\ Ring.full

RECURSIVE ReadUntilEof(_, _, _, _)
\* aesd_read repeated from pos with the given count until it returns 0 or the
\* fuel is spent: [bytes, f_pos, reads, eof]
ReadUntilEof(pos, count, fuel, acc) ==
    LET r == read_body(aesd_device, heap, pos, count, "none")
    IN  IF r.ret <= 0 THEN [bytes |-> acc, f_pos |-> r.f_pos, eof |-> r.ret = 0]
        ELSE IF fuel = 0 THEN [bytes |-> acc \o r.ubuf, f_pos |-> r.f_pos, eof |-> FALSE]
        ELSE ReadUntilEof(r.f_pos, count, fuel - 1, acc \o r.ubuf)

(* C16: from file position 0 and with no commit in between, aesd_read repeated
   with any count >= 1 until it returns 0 ends after at most total-size reads that
   each return at least one byte, has then returned the retained records oldest
   first, and leaves the file position at the total size. *)
C16_ReadToEof ==
    \A count \in 1..(MaxCount + 2) :
        LET all == ReadUntilEof(0, count, TotalSize(Ring), <<>>)
        IN  /\ all.eof
            /\ all.bytes = Flatten(Retained)
            /\ all.f_pos = TotalSize(Ring)

C16_Witness ==
    /\ last_op = "read" /\ retval = 0 /\ ubuf = <<>>
    /\ f_pos[1] = Len(Flatten(Retained))
    /\ ncommits = Capacity + 2
    /\ Ring.out_offs = 2
    /\ nspecial > 1

-----------------------------------------------------------------------------
(* The sessions of the server, as the claims describe them *)

\* the sessions inside a blocking send() to their client
Sending == {c \in Files : session[c].pc \in {"send", "send_fd"}}

\* the sessions between the first and the last read of a read-back
ReadingBack == {c \in Files : session[c].pc \in {"fread", "send", "read_fd", "send_fd"}}

\* the sessions whose read-back has delivered its last chunk
ReadBackDone == {c \in Files : session[c].pc = "unlock"}

\* a sequence without its first n elements
Drop(seq, n) == SubSeq(seq, n + 1, Len(seq))

IsPrefix(p, seq) == Len(p) <= Len(seq) /\ SubSeq(seq, 1, Len(p)) = p

IsSuffix(p, seq) == Len(p) <= Len(seq) /\ Drop(seq, Len(seq) - Len(p)) = p

\* the connection a data byte came from
Origin(b) == b % 10

(* C17: in no reachable state is a session inside send() while it owns
   file_mutex. *)
C17_NoSendUnderLock == \A c \in Sending : file_mutex # c

(* C18: a read-back is a consistent snapshot: while a session reads back, the log
   is the log of the instant the read-back started (no commit takes effect in
   between), what has reached the client or the chunk buffer is a prefix of that
   log from the starting offset, and a finished read-back delivered all of it. *)
C18_ConsistentSnapshot ==
    /\ \A c \in ReadingBack :
          /\ LogBytes(aesd_device, heap) = client[c].snapshot
          /\ IsPrefix(client[c].sent \o session[c].buffer,
                      Drop(client[c].snapshot, client[c].from))
    /\ \A c \in ReadBackDone :
          /\ LogBytes(aesd_device, heap) = client[c].snapshot
          /\ client[c].sent = Drop(client[c].snapshot, client[c].from)

C18_Witness ==
    /\ 1 \in ReadBackDone
    /\ client[1].from > 0
    /\ Len(client[1].sent) >= 1
    /\ session[2].pc = "lock"
    /\ \E i \in 1..Len(client[1].snapshot) : Origin(client[1].snapshot[i]) = 2

(* C19: when a session has received a data record, it has committed it and sent
   the client the whole log from offset 0 to the end: the bytes sent are the
   entries retained at that moment, in order, whoever committed them, and they
   end with the record just committed, terminator included. *)
C19_EchoesWholeLog ==
    \A c \in ReadBackDone :
        client[c].packet # <<>> =>
            /\ client[c].from = 0
            /\ client[c].sent = Flatten(Retained)
            /\ client[c].sent = Flatten(LogicalEntries(Ring, heap))
            /\ IsSuffix(client[c].packet, client[c].sent)
            /\ ncommits >= 1
            /\ IsSuffix(client[c].packet, committed[Len(committed)])
            /\ client[c].packet[Len(client[c].packet)] = NL

C19_Witness ==
    /\ 1 \in ReadBackDone
    /\ client[1].packet # <<>>
    /\ ncommits >= 3
    /\ committers = Files
    /\ \E i \in 1..Len(client[1].sent) : Origin(client[1].sent[i]) = 2

(* C20: every entry committed to the log consists of bytes from exactly one
   connection, also when the connections deliver their records in pieces that
   interleave. *)
C20_EntriesFromOneConnection ==
    \A i \in 1..EntryCount(Ring) :
        LET e == LogicalEntries(Ring, heap)[i]
        IN  \A j, k \in 1..Len(e) :
                (e[j] # NL /\ e[k] # NL) => Origin(e[j]) = Origin(e[k])

-----------------------------------------------------------------------------
(* C28: a write that fails with -ENOMEM or -EFAULT returns the error and leaves
   the ring (indices, full flag, every entry), the pending buffer and its size,
   the storage and the file position exactly as they were: nothing is leaked and
   nothing is freed. *)
C28_FailedCommitChangesNothing ==
    [][(last_op' = "write" /\ retval' \in {0 - ENOMEM, 0 - EFAULT}) =>
          /\ aesd_device' = aesd_device
          /\ heap' = heap
          /\ bad_kfree' = bad_kfree
          /\ f_pos' = f_pos
          /\ LogicalEntries(Ring, heap)' = LogicalEntries(Ring, heap)
          /\ UNCHANGED History_vars]_vars

C28_Witness ==
    /\ last_op = "write" /\ retval = 0 - EFAULT
    /\ Ring.full /\ ncommits > Capacity
    /\ aesd_device.temp_buffer_size > 0
    /\ pending # <<>>

(* C30: an entry is immutable once committed: a step that is not a commit changes
   no slot, and a commit changes at most the slot at in_offs; the size, the
   pointer and the stored bytes of every other slot stay as they are, so an entry
   keeps its bytes and length from the commit that stores it to the one that
   evicts it. *)
C30_EntriesImmutable ==
    [][\A slot \in Slots :
          (slot # Ring.in_offs \/ ncommits' = ncommits) =>
              LET e == Ring.entry[slot]
              IN  /\ Ring'.entry[slot] = e
                  /\ Peek(heap', e.buffptr, 0, e.size) = Peek(heap, e.buffptr, 0, e.size)]_vars

C30_Witness ==
    /\ last_op = "write" /\ retval > 0
    /\ Ring.full /\ Ring.in_offs = 2 /\ Ring.out_offs = 2
    /\ ncommits = Capacity + 2
    /\ LogicalEntries(Ring, heap) = Retained
    /\ aesd_device.temp_buffer_size = 0

(* C29: read, seek-to-command, llseek and the total size leave the ring's logical
   contents and the pending buffer unchanged: after any such call the ring, the
   entries with their bytes, the pending bytes and their count are what they
   were, and the total size computed again gives the same value. *)
C29_ReadOnlyOperations ==
    [][last_op' \in {"read", "llseek", "ioctl"} =>
          /\ Ring' = Ring
          /\ LogicalEntries(Ring, heap)' = LogicalEntries(Ring, heap)
          /\ aesd_device'.temp_buffer_size = aesd_device.temp_buffer_size
          /\ Peek(heap', aesd_device'.temp_buffer, 0, aesd_device'.temp_buffer_size)
                 = Peek(heap, aesd_device.temp_buffer, 0, aesd_device.temp_buffer_size)
          /\ aesd_get_total_size(aesd_device') = aesd_get_total_size(aesd_device)
          /\ UNCHANGED History_vars]_vars

C29_Witness ==
    /\ last_op = "read" /\ retval > 0 /\ f_pos[1] > retval
    /\ Ring.full /\ ncommits >= Capacity
    /\ aesd_device.temp_buffer_size > 0
    /\ LogicalEntries(Ring, heap) = Retained

-----------------------------------------------------------------------------
(* The history of a connection, as the claims describe it *)

IsReceipt(e) == e.op = "recv"

IsDispatch(e) == e.op \in {"seek", "data"}

RECURSIVE Packets(_)
\* the packets of a sequence of events, concatenated
Packets(events) ==
    IF events = <<>> THEN <<>> ELSE Head(events).packet \o Packets(Tail(events))

\* the byte stream connection c has delivered, whatever the chunks were
Stream(c) == Packets(SelectSeq(trace[c], IsReceipt))

\* the records connection c has dispatched to the device, in order
Dispatches(c) == SelectSeq(trace[c], IsDispatch)

RECURSIVE CompleteRecords(_)
\* the terminated records of a byte sequence, in order
CompleteRecords(bytes) ==
    IF memchr(bytes) = 0 THEN <<>>
    ELSE <<SubSeq(bytes, 1, memchr(bytes))>> \o CompleteRecords(Drop(bytes, memchr(bytes)))

RECURSIVE WholeStreamDispatches(_, _)
\* what the session dispatches when the bytes arrive in one receive: each
\* terminated record, classified with the rest of the bytes behind it
WholeStreamDispatches(bytes, stale) ==
    IF memchr(bytes) = 0 THEN <<>>
    ELSE LET at == memchr(bytes)
             record == SubSeq(bytes, 1, at)
         IN  <<[op |-> IF parse_ioctl_seek_command(bytes, at, stale).ok
                       THEN "seek" ELSE "data",
                record |-> record]>>
                 \o WholeStreamDispatches(Drop(bytes, at), stale)

\* d is the beginning of e, dispatch by dispatch
SameDispatches(d, e) ==
    /\ Len(d) <= Len(e)
    /\ \A i \in 1..Len(d) : d[i].op = e[i].op /\ d[i].record = e[i].record

(* C21: the records a session dispatches and their classification as seek or
   data depend on the byte stream alone: whatever the receive chunks were, they
   are the terminated records of the stream, classified as they are when the
   stream arrives in one piece. *)
C21_ChunkingIndependent ==
    \A c \in DOMAIN trace :
        \E stale \in StaleBytes :
            SameDispatches(Dispatches(c), WholeStreamDispatches(Stream(c), stale))

\* the place of the last receipt in the history of connection c, 0 if none
LastReceipt(c) ==
    LET at == {i \in 1..Len(trace[c]) : IsReceipt(trace[c][i])}
    IN  IF at = {} THEN 0 ELSE CHOOSE i \in at : \A j \in at : j <= i

\* the chunk of the last receipt, and the dispatches made since
LastChunk(c) == trace[c][LastReceipt(c)].packet

SinceReceipt(c) == SelectSeq(Drop(trace[c], LastReceipt(c)), IsDispatch)

(* C22: the complete records of one receive are all processed, in arrival order,
   before the session receives again: the dispatches since the receipt are the
   first records of the chunk, each once and each from its first byte to its
   terminator; after each the rest of the chunk is at the front of the buffer
   and its read-back is complete; back at recv none is left out. *)
C22_AllRecordsInOrder ==
    \A c \in DOMAIN trace :
        LastReceipt(c) > 0 =>
            LET records == CompleteRecords(LastChunk(c))
                done == SinceReceipt(c)
            IN  /\ Len(done) <= Len(records)
                /\ \A i \in 1..Len(done) : done[i].packet = records[i]
                /\ session[c].pc \in {"scan", "lock"} =>
                       /\ session[c].receiveBuffer = Drop(LastChunk(c), Len(Packets(done)))
                       /\ Len(done) > 0 =>
                              client[c].sent = Drop(client[c].snapshot, client[c].from)
                /\ session[c].pc = "lock" =>
                       SubSeq(session[c].receiveBuffer, 1, session[c].packetLen)
                           = records[Len(done) + 1]
                /\ session[c].pc = "recv" => Len(done) = Len(records)

C22_Witness ==
    /\ 1 \in DOMAIN trace
    /\ session[1].pc = "recv"
    /\ LastReceipt(1) > 0
    /\ Len(CompleteRecords(LastChunk(1))) = 2
    /\ Len(SinceReceipt(1)) = 2
    /\ SinceReceipt(1)[1].op = "data" /\ SinceReceipt(1)[2].op = "seek"
    /\ Len(client[1].sent) > 0

\* the sessions dispatching a record they classified as a seek command
Seeking == {c \in Files : session[c].pc \in {"ioctl", "read_fd", "send_fd"}}

\* the target of the seek command of session c lies in the log
InRange(c) ==
    /\ session[c].write_cmd < Len(Retained)
    /\ session[c].write_cmd_offset < Len(Retained[session[c].write_cmd + 1])

\* the global offset of the target of the seek command of session c
SeekTarget(c) ==
    Len(Flatten(SubSeq(Retained, 1, session[c].write_cmd))) + session[c].write_cmd_offset

(* C23: a seek record with its target in range sets the cursor to the resolved
   global offset and streams to the end: when its read-back is complete, the
   bytes sent are the log from that offset on and the cursor is at the end; and
   while a session dispatches a seek record nothing is appended to the log. *)
C23_SeekReadBack ==
    \A c \in ReadBackDone :
        session[c].is_ioctl_cmd =>
            /\ InRange(c)
            /\ session[c].ioctl_result = SeekTarget(c)
            /\ client[c].from = SeekTarget(c)
            /\ client[c].sent = Drop(Flatten(Retained), SeekTarget(c))
            /\ client[c].sent = Drop(LogBytes(aesd_device, heap), SeekTarget(c))
            /\ f_pos[c] = Len(Flatten(Retained))

C23_SeekAppendsNothing ==
    Seeking # {} => UNCHANGED <<aesd_device, heap, committed, ncommits, pending>>

C23_SeekStreamsSuffix == [](C23_SeekReadBack) /\ [][C23_SeekAppendsNothing]_vars

C23_Witness ==
    /\ 1 \in ReadBackDone
    /\ session[1].is_ioctl_cmd
    /\ session[1].write_cmd = 1 /\ session[1].write_cmd_offset = 1
    /\ client[1].from >= 3
    /\ Len(client[1].sent) >= 3
    /\ ncommits >= 3

(* C24: a seek record whose target is out of range gets the error -EINVAL from
   the device, and the session sends nothing for it and changes nothing: the
   ring, the pending buffer, the storage, what the clients were sent and every
   other session are as before. *)
C24_FailedSeekStep ==
    \A c \in Files :
        (/\ session[c].pc = "ioctl"
         /\ session'[c] # session[c]
         /\ session'[c].fileFd >= 0
         /\ ~InRange(c)) =>
            /\ session'[c].ioctl_result = 0 - EINVAL
            /\ session'[c].pc = "closed"
            /\ client' = client
            /\ UNCHANGED <<aesd_device, heap, bad_kfree, History_vars>>
            /\ \A d \in Files \ {c} : session'[d] = session[d] /\ f_pos'[d] = f_pos[d]

C24_OutOfRangeSeek == [][C24_FailedSeekStep]_vars

C24_Witness ==
    /\ session[1].pc = "closed"
    /\ session[1].ioctl_result = 0 - EINVAL
    /\ session[1].write_cmd = 1 /\ session[1].write_cmd_offset = 1
    /\ ncommits = 1 /\ committers = {2}
    /\ client[1].sent = <<>>
    /\ client[2].sent = Flatten(Retained)

(* C25: a record that begins with the seek prefix and is not a seek command is
   reported as an error and never written to the log as data. *)
C25_MalformedNeverCommitted ==
    \A c \in DOMAIN trace :
        \A i \in 1..Len(trace[c]) :
            trace[c][i].op = "data" => trace[c][i].packet[1] # SeekPrefix

RECURSIVE AllDigits(_)
AllDigits(field) ==
    field = <<>> \/ (IsDigit(Head(field)) /\ AllDigits(Tail(field)))

\* the record is the prefix, a non-empty digit string, a comma, a non-empty digit
\* string and the terminator, and nothing else
WellFormedSeek(record) ==
    /\ Len(record) >= 5
    /\ record[1] = SeekPrefix
    /\ record[Len(record)] = NL
    /\ \E k \in 3..(Len(record) - 2) :
          /\ record[k] = Comma
          /\ AllDigits(SubSeq(record, 2, k - 1))
          /\ AllDigits(SubSeq(record, k + 1, Len(record) - 1))

(* C26: parse_ioctl_seek_command accepts a record exactly when it is the prefix,
   a non-empty string of digits, a comma, a non-empty string of digits and the
   terminator. *)
C26_AcceptsExactlySeekCommands ==
    \A c \in Files :
        session[c].pc = "lock" =>
            (session[c].is_ioctl_cmd
                <=> WellFormedSeek(SubSeq(session[c].receiveBuffer, 1, session[c].packetLen)))

\* the positions of handle_client between pthread_mutex_lock and pthread_mutex_unlock
Locked == {"ioctl", "append", "fread", "send", "read_fd", "send_fd", "unlock", "append_rest"}

(* C27: after a session has ended, on whatever path, it does not hold file_mutex;
   the mutex is held only by a session between its lock and its unlock; the ring
   and the pending buffer are what the writes so far made them; so a session
   waiting for the mutex waits only for a session that is at work. *)
C27_StoreStaysUsable ==
    /\ \A c \in Files : session[c].pc = "closed" => file_mutex # c
    /\ file_mutex # NULL => session[file_mutex].pc \in Locked
    /\ \A c \in Files : session[c].pc \in Locked => file_mutex = c
    /\ ~bad_kfree
    /\ LogicalEntries(Ring, heap) = Retained
    /\ Peek(heap, aesd_device.temp_buffer, 0, aesd_device.temp_buffer_size) = pending
    /\ LogBytes(aesd_device, heap) = Flatten(Retained)

C27_Witness ==
    /\ session[1].pc = "closed"
    /\ session[1].ioctl_result = 0 - EINVAL
    /\ 2 \in ReadBackDone
    /\ file_mutex = 2
    /\ client[2].packet # <<>>
    /\ client[2].sent = Flatten(Retained)
    /\ ncommits >= 2

-----------------------------------------------------------------------------
(* Shutdown *)

\* the session threads that were started
Started == {t \in Files : thread_data[t].pc # "none"}

\* every session thread that was started has terminated
SessionsExited == \A t \in Started : thread_data[t].pc = "returned"

\* main has left its accept loop
LoopLeft == main_thread.pc \in {"join_all", "done"}

\* no record was freed before its thread was joined, no thread is joined twice,
\* and when main returns every started thread has been joined
JoinedOnce ==
    /\ \A t \in Files : ~thread_data[t].freed_unjoined /\ thread_data[t].joins <= 1
    /\ main_thread.pc = "done" =>
           \A t \in Started : thread_data[t].joins = 1 /\ ~thread_data[t].allocated

\* C31: once IntTermSignaled is set, main's accept loop observes it and leaves,
\* every session thread finishes its operation and terminates, and main joins
\* every session thread exactly once, freeing no record before its join, before
\* it returns
C31_ShutdownJoinsAll ==
    /\ []JoinedOnce
    /\ IntTermSignaled ~> SessionsExited
    /\ IntTermSignaled ~> LoopLeft

-----------------------------------------------------------------------------
(* The bounded receive buffer *)

\* the bytes of a sequence that are not terminators
Text(bytes) == SelectSeq(bytes, LAMBDA b : b # NL)

\* C32: a full receive buffer without terminator is flushed whole and emptied:
\* recv is never called with zero free space, the buffer never exceeds its size,
\* and no buffered byte is discarded, so that the text received is exactly the
\* text written so far followed by the text still buffered
C32_OverflowFlushed ==
    /\ lcd_session.pc = "recv" => lcd_session.space > 0
    /\ Len(lcd_session.receiveBuffer) <= LcdBufferSize
    /\ lcd_log.dropped = <<>>
    /\ lcd_session.pc \notin {"closed", "flush_unlock"} =>
           Text(lcd_log.received) = Flatten(lcd_log.written) \o Text(lcd_session.receiveBuffer)

-----------------------------------------------------------------------------
(* The pending buffer shared by the open files *)

\* the entry added to the ring last
NewestEntry ==
    LET entries == LogicalEntries(Ring, heap)
    IN  entries[Len(entries)]

\* C33: whenever the device lock is free, the one pending buffer holds the
\* unterminated bytes written through all open files in the order the lock was
\* granted, the entry added last is the pending bytes of that moment followed by
\* the terminator-bearing write, whichever open files they came through, and the
\* ring has one entry per commit; and the write that commits leaves the pending
\* buffer with size 0 and no storage when it releases the lock
C33_OnePendingBuffer ==
    /\ [](aesd_device.lock = NULL =>
            /\ Peek(heap, aesd_device.temp_buffer, 0, aesd_device.temp_buffer_size) = pending
            /\ writers.pending = {} <=> pending = <<>>
            /\ EntryCount(Ring) = Min(ncommits, Capacity)
            /\ ncommits > 0 => NewestEntry = committed[Len(committed)])
    /\ [][\A t \in Files :
            (/\ aesd_device.lock = t
             /\ aesd_device'.lock = NULL
             /\ pc[t] = "w_return"
             /\ loc[t].fault = "none"
             /\ found_newline(loc[t].buf)) =>
                /\ aesd_device'.temp_buffer = NULL
                /\ aesd_device'.temp_buffer_size = 0]_vars

C33_Witness ==
    /\ aesd_device.lock = NULL
    /\ writers.record = Files
    /\ NewestEntry = committed[Len(committed)]
    /\ Len(NewestEntry) = 3
    /\ aesd_device.temp_buffer = NULL

-----------------------------------------------------------------------------
(* Every buffer is freed once *)

\* the storage that is allocated
Live == {p \in Ptrs : heap[p].live}

\* the storage a step frees
Freed == {p \in Live : ~heap'[p].live}

\* the step is a commit that evicts the entry stored at p
Evicts(p) ==
    /\ ncommits' = ncommits + 1
    /\ Ring.full
    /\ p = Ring.entry[Ring.in_offs].buffptr

\* C34 as stated: nothing is freed twice, a buffer is freed only by the commit
\* that evicts its entry or by aesd_cleanup_module, and after
\* aesd_cleanup_module nothing remains allocated
C34_FreedByEvictionOrTeardown ==
    /\ [](~bad_kfree /\ (last_op = "cleanup" => Live = {}))
    /\ [][\A p \in Freed : last_op' = "cleanup" \/ Evicts(p)]_vars

\* C34 amended: nothing is freed twice; a buffer is freed only by the commit that
\* evicts its entry, by the write that replaces it as the pending buffer, or by
\* aesd_cleanup_module, which frees exactly the entry buffers and the pending
\* buffer left; a write whose copy fails frees only what it allocated itself;
\* after aesd_cleanup_module nothing remains allocated
C34_FreedExactlyOnce ==
    /\ [](~bad_kfree /\ (last_op = "cleanup" => Live = {}))
    /\ [][/\ \A p \in Freed : \/ last_op' = "cleanup"
                              \/ Evicts(p)
                              \/ (last_op' = "write" /\ p = aesd_device.temp_buffer)
          /\ last_op' = "cleanup" => Freed = Owned /\ Freed = Live]_vars

C34_Witness ==
    /\ last_op = "cleanup"
    /\ Live = {}
    /\ ncommits >= Capacity + 1
    /\ pending # <<>>
    /\ aesd_device.temp_buffer # NULL
    /\ Ring.full

-----------------------------------------------------------------------------
(* The walks are bounded by the capacity *)

\* the offsets and command numbers the walks are given
WalkOffsets == 0..(TotalSize(Ring) + 1)
WalkCommands == 0..(adjust_count(Ring) - 1)

\* a walk returned after at most capacity slots, all of them logical entries
\* taken in order from out_offs, none twice
BoundedWalk(w) ==
    /\ w.terminated
    /\ Len(w.visited) <= Capacity
    /\ IsPrefix(w.visited, LogicalSlots(Ring))

\* a walk visited every logical entry
FullWalk(w) == w.terminated /\ w.visited = LogicalSlots(Ring)

\* C35 as stated: each of the three walks terminates after at most capacity slots
\* and visits exactly the logical entries, each once
C35_WalksVisitAllEntries ==
    /\ FullWalk(get_total_size_visits(Ring))
    /\ \A char_offset \in WalkOffsets : FullWalk(find_entry_visits(Ring, char_offset))
    /\ \A write_cmd \in WalkCommands : FullWalk(adjust_file_offset_visits(Ring, write_cmd))

\* C35 amended: each walk terminates after at most capacity slots and visits
\* only logical entries, in order from out_offs and none twice;
\* aesd_get_total_size visits all of them, the find walk stops at the entry that
\* holds the offset (visiting all when the offset is at or past the total size),
\* and the seek walk visits the entries before the command it is given
C35_WalksBoundedByCapacity ==
    /\ FullWalk(get_total_size_visits(Ring))
    /\ \A char_offset \in WalkOffsets :
          LET w == find_entry_visits(Ring, char_offset)
              k == EntryIndexAt(Ring, char_offset)
          IN  /\ BoundedWalk(w)
              /\ Len(w.visited) = IF k = 0 THEN EntryCount(Ring) ELSE k
    /\ \A write_cmd \in WalkCommands :
          LET w == adjust_file_offset_visits(Ring, write_cmd)
          IN  BoundedWalk(w) /\ Len(w.visited) = write_cmd

C35_Witness ==
    /\ Ring.full
    /\ Ring.out_offs > 0
    /\ Len(get_total_size_visits(Ring).visited) = Capacity
    /\ Len(find_entry_visits(Ring, 0).visited) = 1
    /\ Len(adjust_file_offset_visits(Ring, Capacity - 1).visited) = Capacity - 1

-----------------------------------------------------------------------------
(* The result of a write *)

\* the number of bytes the history grows by in a step
Accepted ==
    IF ncommits' = ncommits + 1
    THEN Len(committed'[Len(committed')]) - Len(pending)
    ELSE Len(pending') - Len(pending)

\* C36: a write that succeeds returns the number of bytes it was given, all of
\* which are accepted whether or not they complete a record, and leaves the
\* caller's file position at the total size of the ring after the write; a write
\* that fails returns a negative value and accepts nothing
C36_WriteReturnsCount ==
    [][last_op' = "write" =>
          LET f == last_by'
          IN  IF retval' >= 0
              THEN /\ retval' = Accepted
                   /\ f_pos'[f] = TotalSize(Ring')
                   /\ LogicalEntries(Ring', heap') = LastN(committed', Capacity)
                   /\ Peek(heap', aesd_device'.temp_buffer, 0, aesd_device'.temp_buffer_size)
                          = pending'
              ELSE UNCHANGED <<f_pos, History_vars>>]_vars

C36_Witness ==
    /\ last_op = "write"
    /\ retval = 1
    /\ pending # <<>>
    /\ ncommits > Capacity
    /\ f_pos[last_by] = TotalSize(Ring)
    /\ f_pos[last_by] > 0

-----------------------------------------------------------------------------
(* do_exec_redirect *)

\* C37: whenever do_exec_redirect has returned, on any of its return paths, the
\* caller has no descriptor open on an output file
C37_OutputFileClosed ==
    redirect.pc = "idle" => redirect.open_fds = {}

-----------------------------------------------------------------------------
(* The numbers of a seek record *)

RECURSIVE Decimal(_, _)
\* the number a string of digits writes, in limbs, after the digits read so far
Decimal(field, acc) ==
    IF field = <<>> THEN acc
    ELSE Decimal(Tail(field), strtoul_accumulate(acc, Head(field) - Digit(0)))

\* the position of the comma of a well-formed seek record
CommaOf(record) == CHOOSE k \in 3..(Len(record) - 2) : record[k] = Comma

\* the index and the offset written in a well-formed seek record
WrittenIndex(record) == Decimal(SubSeq(record, 2, CommaOf(record) - 1), Zero)
WrittenOffset(record) == Decimal(SubSeq(record, CommaOf(record) + 1, Len(record) - 1), Zero)

\* the number in limbs is the integer n
Is(x, n) == x.high = 0 /\ x.mid * Limb + x.low = n

\* the record session c is dispatching
Dispatched(c) == SubSeq(session[c].receiveBuffer, 1, session[c].packetLen)

\* the seek of session c has succeeded and its read-back is under way
SeekSucceeded(c) == session[c].pc \in {"read_fd", "send_fd"} /\ session[c].ioctl_result >= 0

\* C38: the index and the offset a session passes to the store are exactly the
\* numbers written in the seek record, so that a seek succeeds only if the index
\* written is below the number of entries
C38_SeekNumbersExact ==
    \A c \in Seeking :
        WellFormedSeek(Dispatched(c)) =>
            /\ Is(WrittenIndex(Dispatched(c)), session[c].write_cmd)
            /\ Is(WrittenOffset(Dispatched(c)), session[c].write_cmd_offset)
            /\ SeekSucceeded(c) => session[c].write_cmd < EntryCount(Ring)

-----------------------------------------------------------------------------
(* The balance of the two locks *)

\* the threads between mutex_lock_interruptible and mutex_unlock of a handler
InHandler == {t \in Files : pc[t] # "idle"}

\* the sessions between pthread_mutex_lock and pthread_mutex_unlock
InCritical == {c \in Files : session[c].pc \in Locked}

\* each lock is held exactly by the thread that is between its lock and its
\* unlock: a thread that has returned, has exited or waits in recv holds none
LocksHeldInside ==
    /\ \A c \in Files : file_mutex = c <=> c \in InCritical
    /\ \A t \in Files : aesd_device.lock = t <=> t \in InHandler
    /\ \A c \in Files : session[c].pc \in {"recv", "closed"} => file_mutex # c
    /\ Cardinality(InCritical) <= 1 /\ Cardinality(InHandler) <= 1

\* a step that changes file_mutex is its acquisition, while it is free, by a
\* session waiting for it, or its release by the session holding it, which
\* leaves the critical section; no other session moves
FileMutexStep ==
    file_mutex' # file_mutex =>
        \/ /\ file_mutex = NULL
           /\ file_mutex' \in Files
           /\ session[file_mutex'].pc \in {"lock", "lock_rest"}
           /\ \A c \in Files \ {file_mutex'} : session'[c] = session[c]
        \/ /\ file_mutex \in Files
           /\ file_mutex' = NULL
           /\ session[file_mutex].pc \in Locked
           /\ session'[file_mutex].pc \notin Locked
           /\ \A c \in Files \ {file_mutex} : session'[c] = session[c]

\* a step that changes dev->lock is its acquisition, while it is free, by a
\* thread entering a handler, or its release by the thread holding it, which
\* returns; no other thread moves
DevLockStep ==
    aesd_device'.lock # aesd_device.lock =>
        \/ /\ aesd_device.lock = NULL
           /\ aesd_device'.lock \in Files
           /\ pc[aesd_device'.lock] = "idle"
           /\ \A t \in Files \ {aesd_device'.lock} : pc'[t] = pc[t]
        \/ /\ aesd_device.lock \in Files
           /\ aesd_device'.lock = NULL
           /\ pc'[aesd_device.lock] = "idle"
           /\ \A t \in Files \ {aesd_device.lock} : pc'[t] = pc[t]

\* a session leaves the critical section, and a thread returns from a handler,
\* only by the step that releases the lock it holds
LeavesByRelease ==
    /\ \A c \in Files :
          (session[c].pc \in Locked /\ session'[c].pc \notin Locked) =>
              (file_mutex = c /\ file_mutex' = NULL)
    /\ \A t \in Files :
          (pc[t] # "idle" /\ pc'[t] = "idle") =>
              (aesd_device.lock = t /\ aesd_device'.lock = NULL)

\* C39: in handle_client every acquisition of file_mutex is followed by exactly
\* one release on every path, in the driver every return path of a handler that
\* acquired dev->lock releases it exactly once, no thread exits or waits in recv
\* while holding a lock, and no lock is released by a thread that does not hold it
C39_LocksBalanced ==
    /\ []LocksHeldInside
    /\ [][FileMutexStep /\ DevLockStep /\ LeavesByRelease]_vars

\* the session has been through a record and then left on the failing-seek path
\* of handle_client, the mutex free behind it
C39_Witness ==
    /\ session[1].pc = "closed"
    /\ session[1].ioctl_result = 0 - EINVAL
    /\ file_mutex = NULL
    /\ aesd_device.lock = NULL
    /\ ncommits >= 1

-----------------------------------------------------------------------------
(* The pending buffer and the entries while the lock is free *)

\* the bytes of the pending buffer of the device
PendingBytes == Peek(heap, aesd_device.temp_buffer, 0, aesd_device.temp_buffer_size)

\* sequence s holds a terminator
HasTerminator(s) == \E i \in 1..Len(s) : s[i] = NL

\* the pending buffer holds bytes of no finished record
PendingUnterminated == ~HasTerminator(PendingBytes)

\* every logical entry of the ring is a stored record: a buffer of at least one
\* byte with a terminator in it
EntriesWellFormed ==
    \A i \in 1..EntryCount(Ring) :
        LET e == Ring.entry[LogicalSlot(Ring, i)]
        IN  /\ e.size >= 1
            /\ e.buffptr # NULL
            /\ HasTerminator(Peek(heap, e.buffptr, 0, e.size))

\* C40: whenever dev->lock is free the pending buffer holds no terminator and
\* temp_buffer is NULL exactly when temp_buffer_size is 0, and every logical
\* entry of the ring has a size of at least 1, a non-NULL buffer and a terminator
C40_PendingAndEntriesWellFormed ==
    /\ mutex_is_unlocked(aesd_device) =>
          /\ PendingUnterminated
          /\ aesd_device.temp_buffer = NULL <=> aesd_device.temp_buffer_size = 0
    /\ EntriesWellFormed

\* C40 as the code has it: whenever dev->lock is free the pending buffer holds no
\* terminator and temp_buffer_size is 0 whenever temp_buffer is NULL, and every
\* logical entry of the ring has a size of at least 1, a non-NULL buffer and a
\* terminator
C40_PendingSizeZeroWhenNull ==
    /\ mutex_is_unlocked(aesd_device) =>
          /\ PendingUnterminated
          /\ aesd_device.temp_buffer = NULL => aesd_device.temp_buffer_size = 0
    /\ EntriesWellFormed

\* a write of no bytes has left a pending buffer of size 0 that is not NULL, the
\* lock is free and the ring has wrapped
C40_Witness ==
    /\ mutex_is_unlocked(aesd_device)
    /\ aesd_device.temp_buffer # NULL
    /\ aesd_device.temp_buffer_size = 0
    /\ ncommits > Capacity

=============================================================================
